---- MODULE Spec2Model ----
(***************************************************************************)
(* A model of the rootspace numeric core: the index algebra of             *)
(* src/src/rootspace/_index_handling.c and the Matrix type of              *)
(* src/src/rootspace/_matrix.c, which shares one MatrixContainer between a *)
(* Matrix and its transposed views.                                        *)
(* A Matrix carries its reference count ob_refcnt; iterators holds the     *)
(* MatrixIterator objects, each with a reference to its Matrix.             *)
(*                                                                         *)
(* Python objects are records of one shape, so that any two of them can be *)
(* compared: kind is "int", "float", "tuple", "slice", "matrix", "null" or *)
(* "other" (a str, None: anything every type check rejects).  A slice      *)
(* member is <<>> for None and <<n>> for the integer n.                    *)
(* Element values stand for float32 numbers; only small integers, which    *)
(* float32 holds exactly, are stored.                                      *)
(***************************************************************************)
EXTENDS Integers, Sequences, FiniteSets, TLC

VARIABLES args, pc, ret, containers, matrices, result, iterators

vars == <<args, pc, ret, containers, matrices, result, iterators>>

idxVars == <<args, pc, ret>>
matVars == <<containers, matrices, result, iterators>>

(***************************************************************************)
(* Bounds of the model.                                                    *)
(***************************************************************************)
\* The index algebra is called with N and M in 1 .. MaxDim.
MaxDim == 3
\* A Matrix is constructed with N and M in -1 .. MaxShape.
MaxShape == 2
\* A tuple used as a selector has at most MaxLen elements.
MaxLen == 2
\* A slice step is None or lies in -MaxStep .. MaxStep.
MaxStep == 2
\* At most MaxMatrices Matrix objects are created in one run.
MaxMatrices == 3
\* At most MaxContainers MatrixContainer objects are created in one run: the
\* buffer of a constructed Matrix or of the copy a multi-element Get returns.
MaxContainers == 1
\* Element values lie in 0 .. MaxValue.
MaxValue == 1

\* The width of Py_ssize_t on a 32 bit build.
PY_SSIZE_T_MAX == 2147483647
PY_SSIZE_T_MIN == (-PY_SSIZE_T_MAX) - 1

(***************************************************************************)
(* Python objects.                                                         *)
(***************************************************************************)
PyLong(n) == [kind |-> "int", val |-> n, elems |-> <<>>,
              start |-> <<>>, stop |-> <<>>, step |-> <<>>]
PyTuple(s) == [kind |-> "tuple", val |-> 0, elems |-> s,
               start |-> <<>>, stop |-> <<>>, step |-> <<>>]
PySlice_New(a, b, c) == [kind |-> "slice", val |-> 0, elems |-> <<>>,
                         start |-> a, stop |-> b, step |-> c]
PyOther == [kind |-> "other", val |-> 0, elems |-> <<>>,
            start |-> <<>>, stop |-> <<>>, step |-> <<>>]
\* A float (the value n stands for n.0), a Matrix (by its identity) and an
\* omitted argument (a NULL pointer).
PyFloat(n) == [kind |-> "float", val |-> n, elems |-> <<>>,
               start |-> <<>>, stop |-> <<>>, step |-> <<>>]
PyMatrix(id) == [kind |-> "matrix", val |-> id, elems |-> <<>>,
                 start |-> <<>>, stop |-> <<>>, step |-> <<>>]
PyNULL == [kind |-> "null", val |-> 0, elems |-> <<>>,
           start |-> <<>>, stop |-> <<>>, step |-> <<>>]

PyLong_Check(o) == o.kind = "int"
PyTuple_Check(o) == o.kind = "tuple"
PySlice_Check(o) == o.kind = "slice"
PyFloat_Check(o) == o.kind = "float"
Matrix_Check(o) == o.kind = "matrix"
\* The sequences of the model are tuples.
PySequence_Check(o) == o.kind = "tuple"
PyTuple_Size(o) == Len(o.elems)
PyTuple_GetItem(o, k) == o.elems[k + 1]

\* slice(None, None, None)
FullSlice == PySlice_New(<<>>, <<>>, <<>>)

(***************************************************************************)
(* The outcome of a call: err is "" on success and the name of the raised  *)
(* exception otherwise; val is the returned value (a sequence).            *)
(***************************************************************************)
Ok(v) == [err |-> "", val |-> v]
Raise(e) == [err |-> e, val |-> <<>>]

\* The outcome of a Matrix operation: op names the operation, self the Matrix
\* it was called on, kind what val holds ("float": one element value,
\* "matrix": the identity of the new Matrix, "": nothing).
NoResult == [op |-> "", self |-> 0, err |-> "", kind |-> "", val |-> <<>>]
Outcome(op, self, err, kind, val) ==
    [op |-> op, self |-> self, err |-> err, kind |-> kind, val |-> val]

(***************************************************************************)
(* linearize_scalar_indices: the offset of the logical position (i, j) of  *)
(* an N x M buffer, or -1 (IndexError) when the position is out of bounds. *)
(***************************************************************************)
linearize_scalar_indices_stride(N, M, transposed, i, j) ==
    IF ~transposed /\ 0 <= i /\ i < N /\ 0 <= j /\ j < M
    THEN i * M + j
    ELSE IF transposed /\ 0 <= j /\ j < N /\ 0 <= i /\ i < M
         THEN j * N + i
         ELSE -1

linearize_scalar_indices_wrap(N, M, transposed, i, j) ==
    LET ii == IF i < 0 THEN i + (IF transposed THEN M ELSE N) ELSE i
        jj == IF j < 0 THEN j + (IF transposed THEN N ELSE M) ELSE j
    IN  IF ~transposed /\ 0 <= ii /\ ii < N /\ 0 <= jj /\ jj < M
        THEN ii * M + jj
        ELSE IF transposed /\ 0 <= jj /\ jj < N /\ 0 <= ii /\ ii < M
             THEN jj * M + ii
             ELSE -1

linearize_scalar_indices(N, M, transposed, i, j) ==
    IF ~transposed /\ 0 <= i /\ i < N /\ 0 <= j /\ j < M
    THEN i * M + j
    ELSE IF transposed /\ 0 <= j /\ j < N /\ 0 <= i /\ i < M
         THEN j * M + i
         ELSE -1

(***************************************************************************)
(* PySlice_GetIndicesEx(slice, length): CPython's PySlice_Unpack followed  *)
(* by PySlice_AdjustIndices.  ok is FALSE when the step is zero            *)
(* (ValueError, "slice step cannot be zero").  "x + length < 0" is written *)
(* "x < -length": for the stop PY_SSIZE_T_MIN of a negative step and a     *)
(* negative length (a Matrix built with N, M < 0) the C sum overflows; a   *)
(* build that wraps leaves stop = length - 1 and one that does not leaves  *)
(* stop = -1, and with start = length - 1 both give len = 0.  The callers  *)
(* read start, step and len only.                                          *)
(***************************************************************************)
PySlice_Unpack(s) ==
    LET step == IF s.step = <<>> THEN 1 ELSE s.step[1]
        start == IF s.start = <<>>
                 THEN (IF step < 0 THEN PY_SSIZE_T_MAX ELSE 0)
                 ELSE s.start[1]
        stop == IF s.stop = <<>>
                THEN (IF step < 0 THEN PY_SSIZE_T_MIN ELSE PY_SSIZE_T_MAX)
                ELSE s.stop[1]
    IN  [ok |-> step # 0, start |-> start, stop |-> stop, step |-> step]

PySlice_AdjustIndices_noclamp(length, start0, stop0, step) ==
    LET start == IF start0 < 0
                 THEN start0 + length
                 ELSE IF start0 >= length
                      THEN (IF step < 0 THEN length - 1 ELSE length)
                      ELSE start0
        stop == IF stop0 < 0
                THEN (IF stop0 + length < 0
                      THEN (IF step < 0 THEN -1 ELSE 0)
                      ELSE stop0 + length)
                ELSE IF stop0 >= length
                     THEN (IF step < 0 THEN length - 1 ELSE length)
                     ELSE stop0
        len == IF step < 0
               THEN (IF stop < start THEN ((start - stop - 1) \div (-step)) + 1 ELSE 0)
               ELSE (IF start < stop THEN ((stop - start - 1) \div step) + 1 ELSE 0)
    IN  [start |-> start, stop |-> stop, len |-> len]

PySlice_AdjustIndices(length, start0, stop0, step) ==
    LET start == IF start0 < 0
                 THEN (IF start0 < -length
                       THEN (IF step < 0 THEN -1 ELSE 0)
                       ELSE start0 + length)
                 ELSE IF start0 >= length
                      THEN (IF step < 0 THEN length - 1 ELSE length)
                      ELSE start0
        stop == IF stop0 < 0
                THEN (IF stop0 < -length
                      THEN (IF step < 0 THEN -1 ELSE 0)
                      ELSE stop0 + length)
                ELSE IF stop0 >= length
                     THEN (IF step < 0 THEN length - 1 ELSE length)
                     ELSE stop0
        len == IF step < 0
               THEN (IF stop < start THEN ((start - stop - 1) \div (-step)) + 1 ELSE 0)
               ELSE (IF start < stop THEN ((stop - start - 1) \div step) + 1 ELSE 0)
    IN  [start |-> start, stop |-> stop, len |-> len]

\* The outcome of PySlice_GetIndicesEx for the unpacked members u.
PySlice_Adjusted(u, a) ==
    [ok |-> TRUE, start |-> a.start, stop |-> a.stop, step |-> u.step, len |-> a.len]

PySlice_Unpacked(u, length) ==
    IF ~u.ok
    THEN [ok |-> FALSE, start |-> 0, stop |-> length, step |-> 1, len |-> length]
    ELSE PySlice_Adjusted(u, PySlice_AdjustIndices(length, u.start, u.stop, u.step))

PySlice_GetIndicesEx(s, length) == PySlice_Unpacked(PySlice_Unpack(s), length)

(***************************************************************************)
(* The loops of the nine li_* functions.  Each of them walks the axis-0    *)
(* elements (outer) and the axis-1 elements (inner); an element that comes *)
(* from a tuple is type-checked when the loop reaches it, then the pair is *)
(* linearized, then the offset is stored at the position                   *)
(* linearize_scalar_indices(i_len, j_len, 0, i_idx, j_idx) of the result.  *)
(* A scalar index is a one-element axis and a slice an axis of integers,   *)
(* whose type check cannot fail.  r starts as a tuple of NULLs (-1).       *)
(***************************************************************************)
RECURSIVE li_inner(_, _, _, _, _, _, _, _)
li_inner(N, M, transposed, is, js, i_idx, j_idx, r) ==
    IF j_idx >= Len(js)
    THEN Ok(r)
    ELSE LET j_element == js[j_idx + 1]
         IN  IF ~PyLong_Check(j_element)
             THEN Raise("TypeError")
             ELSE LET lin_idx == linearize_scalar_indices(N, M, transposed,
                                     is[i_idx + 1].val, j_element.val)
                      r_idx == linearize_scalar_indices(Len(is), Len(js), FALSE,
                                     i_idx, j_idx)
                  IN  IF lin_idx < 0 \/ r_idx < 0
                      THEN Raise("IndexError")
                      ELSE li_inner(N, M, transposed, is, js, i_idx, j_idx + 1,
                                    [r EXCEPT ![r_idx + 1] = lin_idx])

RECURSIVE li_outer(_, _, _, _, _, _, _)
\* After the inner loop of row i_idx: stop at its error, or go on with its result.
li_outer_next(N, M, transposed, is, js, i_idx, row) ==
    IF row.err # ""
    THEN row
    ELSE li_outer(N, M, transposed, is, js, i_idx + 1, row.val)

li_outer(N, M, transposed, is, js, i_idx, r) ==
    IF i_idx >= Len(is)
    THEN Ok(r)
    ELSE IF ~PyLong_Check(is[i_idx + 1])
         THEN Raise("TypeError")
         ELSE li_outer_next(N, M, transposed, is, js, i_idx,
                            li_inner(N, M, transposed, is, js, i_idx, 0, r))

li_colmajor(i_len, j_len, res) ==
    IF res.err # ""
    THEN res
    ELSE Ok([k \in 1 .. Len(res.val) |->
               res.val[((k - 1) % i_len) * j_len + ((k - 1) \div i_len) + 1]])

li_loop_colmajor(N, M, transposed, is, js) ==
    li_colmajor(Len(is), Len(js),
                li_outer(N, M, transposed, is, js, 0, [k \in 1 .. Len(is) * Len(js) |-> -1]))

li_loop(N, M, transposed, is, js) ==
    li_outer(N, M, transposed, is, js, 0, [k \in 1 .. Len(is) * Len(js) |-> -1])

\* The integers r_idx * step + start, r_idx = 0 .. len - 1, of a resolved slice.
SliceElements(sl) == [k \in 1 .. sl.len |-> PyLong((k - 1) * sl.step + sl.start)]

\* The loops once PySlice_GetIndicesEx has resolved the slice(s): its failure
\* is returned before any element is looked at.
li_resolved_j(N, M, transposed, is, sl_j) ==
    IF ~sl_j.ok
    THEN Raise("ValueError")
    ELSE li_loop(N, M, transposed, is, SliceElements(sl_j))

li_resolved_i(N, M, transposed, sl_i, js) ==
    IF ~sl_i.ok
    THEN Raise("ValueError")
    ELSE li_loop(N, M, transposed, SliceElements(sl_i), js)

li_resolved_ij(N, M, transposed, sl_i, sl_j) ==
    IF ~sl_i.ok \/ ~sl_j.ok
    THEN Raise("ValueError")
    ELSE li_loop(N, M, transposed, SliceElements(sl_i), SliceElements(sl_j))

\* The offset returned without the test for the -1 of an index out of bounds.
li_int_int_unchecked(N, M, transposed, i, j) ==
    Ok(<<linearize_scalar_indices(N, M, transposed, i, j)>>)

li_int_int(N, M, transposed, i, j) ==
    LET lin_idx == linearize_scalar_indices(N, M, transposed, i, j)
    IN  IF lin_idx < 0 THEN Raise("IndexError") ELSE Ok(<<lin_idx>>)

li_int_tuple(N, M, transposed, i, j) ==
    li_loop(N, M, transposed, <<PyLong(i)>>, j.elems)

li_int_slice(N, M, transposed, i, j) ==
    LET max_j == IF transposed THEN N ELSE M
    IN  li_resolved_j(N, M, transposed, <<PyLong(i)>>, PySlice_GetIndicesEx(j, max_j))

li_tuple_int(N, M, transposed, i, j) ==
    li_loop(N, M, transposed, i.elems, <<PyLong(j)>>)

li_tuple_tuple(N, M, transposed, i, j) ==
    li_loop(N, M, transposed, i.elems, j.elems)

li_tuple_slice(N, M, transposed, i, j) ==
    LET max_j == IF transposed THEN N ELSE M
    IN  li_resolved_j(N, M, transposed, i.elems, PySlice_GetIndicesEx(j, max_j))

li_slice_int(N, M, transposed, i, j) ==
    LET max_i == IF transposed THEN M ELSE N
    IN  li_resolved_i(N, M, transposed, PySlice_GetIndicesEx(i, max_i), <<PyLong(j)>>)

li_slice_tuple(N, M, transposed, i, j) ==
    LET max_i == IF transposed THEN M ELSE N
    IN  li_resolved_i(N, M, transposed, PySlice_GetIndicesEx(i, max_i), j.elems)

li_slice_slice(N, M, transposed, i, j) ==
    LET max_i == IF transposed THEN M ELSE N
        max_j == IF transposed THEN N ELSE M
    IN  li_resolved_ij(N, M, transposed,
                       PySlice_GetIndicesEx(i, max_i), PySlice_GetIndicesEx(j, max_j))

(***************************************************************************)
(* get_sub_shape: the shape (n_i, n_j) of the selection.  The extents the  *)
(* slices are resolved against are swapped for a transposed matrix.        *)
(***************************************************************************)
\* The branches of get_sub_shape once the slices are resolved: sl_i and sl_j are
\* read only for a selector that is a slice.
sub_shape_extent(o, sl) ==
    IF PyLong_Check(o) THEN 1
    ELSE IF PyTuple_Check(o) THEN PyTuple_Size(o)
    ELSE sl.len

sub_shape_resolved(i, j, sl_i, sl_j) ==
    IF ~(PyLong_Check(i) \/ PyTuple_Check(i) \/ PySlice_Check(i))
       \/ ~(PyLong_Check(j) \/ PyTuple_Check(j) \/ PySlice_Check(j))
    THEN Raise("TypeError")
    ELSE IF (PySlice_Check(i) /\ ~sl_i.ok) \/ (PySlice_Check(j) /\ ~sl_j.ok)
    THEN Raise("ValueError")
    ELSE Ok(<<sub_shape_extent(i, sl_i), sub_shape_extent(j, sl_j)>>)

get_sub_shape_unswapped(N, M, transposed, indices) ==
    IF ~PyTuple_Check(indices)
    THEN Raise("TypeError")
    ELSE IF PyTuple_Size(indices) # 2
    THEN Raise("ValueError")
    ELSE sub_shape_resolved(PyTuple_GetItem(indices, 0), PyTuple_GetItem(indices, 1),
                            PySlice_GetIndicesEx(PyTuple_GetItem(indices, 0), N),
                            PySlice_GetIndicesEx(PyTuple_GetItem(indices, 1), M))

get_sub_shape(N, M, transposed, indices) ==
    IF ~PyTuple_Check(indices)
    THEN Raise("TypeError")
    ELSE IF PyTuple_Size(indices) # 2
    THEN Raise("ValueError")
    ELSE LET max_i == IF transposed THEN M ELSE N
             max_j == IF transposed THEN N ELSE M
         IN  sub_shape_resolved(PyTuple_GetItem(indices, 0), PyTuple_GetItem(indices, 1),
                                PySlice_GetIndicesEx(PyTuple_GetItem(indices, 0), max_i),
                                PySlice_GetIndicesEx(PyTuple_GetItem(indices, 1), max_j))

(***************************************************************************)
(* linearize_indices: the dispatch on the kinds of the two selectors.      *)
(***************************************************************************)
linearize_indices(N, M, transposed, indices) ==
    IF ~PyTuple_Check(indices)
    THEN Raise("TypeError")
    ELSE IF PyTuple_Size(indices) # 2
    THEN Raise("ValueError")
    ELSE
    LET i == PyTuple_GetItem(indices, 0)
        j == PyTuple_GetItem(indices, 1)
    IN  IF PyLong_Check(i) /\ PyLong_Check(j)
        THEN li_int_int(N, M, transposed, i.val, j.val)
        ELSE IF PyLong_Check(i) /\ PyTuple_Check(j)
        THEN li_int_tuple(N, M, transposed, i.val, j)
        ELSE IF PyLong_Check(i) /\ PySlice_Check(j)
        THEN li_int_slice(N, M, transposed, i.val, j)
        ELSE IF PyTuple_Check(i) /\ PyLong_Check(j)
        THEN li_tuple_int(N, M, transposed, i, j.val)
        ELSE IF PyTuple_Check(i) /\ PyTuple_Check(j)
        THEN li_tuple_tuple(N, M, transposed, i, j)
        ELSE IF PyTuple_Check(i) /\ PySlice_Check(j)
        THEN li_tuple_slice(N, M, transposed, i, j)
        ELSE IF PySlice_Check(i) /\ PyLong_Check(j)
        THEN li_slice_int(N, M, transposed, i, j.val)
        ELSE IF PySlice_Check(i) /\ PyTuple_Check(j)
        THEN li_slice_tuple(N, M, transposed, i, j)
        ELSE IF PySlice_Check(i) /\ PySlice_Check(j)
        THEN li_slice_slice(N, M, transposed, i, j)
        ELSE Raise("TypeError")

(***************************************************************************)
(* complete_indices: the canonical 2-tuple of a key.                       *)
(***************************************************************************)
complete_indices(indices) ==
    IF PyLong_Check(indices) \/ PySlice_Check(indices)
    THEN Ok(<<indices, FullSlice>>)
    ELSE IF PyTuple_Check(indices)
    THEN (IF PyTuple_Size(indices) = 1
          THEN Ok(<<PyTuple_GetItem(indices, 0), FullSlice>>)
          ELSE IF PyTuple_Size(indices) = 2
          THEN Ok(<<PyTuple_GetItem(indices, 0), PyTuple_GetItem(indices, 1)>>)
          ELSE Raise("ValueError"))
    ELSE Raise("TypeError")

(***************************************************************************)
(* select_all: the offsets of (slice(None), slice(None)).                  *)
(***************************************************************************)
select_all(N, M, transposed) ==
    linearize_indices(N, M, transposed, PyTuple(<<FullSlice, FullSlice>>))

(***************************************************************************)
(* The callers of the index algebra: the inputs a call is made with.       *)
(***************************************************************************)
SeqsUpTo(S, n) == UNION {[1 .. k -> S] : k \in 0 .. n}

Ints == {PyLong(n) : n \in -1 .. MaxDim}
ListElements == Ints \cup {PyOther}
Lists == {PyTuple(s) : s \in SeqsUpTo(ListElements, MaxLen)}
SliceMembers == {<<>>} \cup {<<n>> : n \in -(MaxDim + 1) .. (MaxDim + 1)}
SliceSteps == {<<>>} \cup {<<n>> : n \in -MaxStep .. MaxStep}
Slices == {PySlice_New(a, b, c) : a \in SliceMembers, b \in SliceMembers, c \in SliceSteps}
Selectors == Ints \cup Lists \cup Slices

\* The selectors the other axis is paired with: one of each kind and outcome.
Probes == {PyLong(0), PyLong(MaxDim),
           PyTuple(<<>>), PyTuple(<<PyLong(0)>>), PyTuple(<<PyOther>>),
           FullSlice, PySlice_New(<<>>, <<>>, <<-1>>), PySlice_New(<<0>>, <<0>>, <<>>),
           PySlice_New(<<>>, <<>>, <<0>>), PyOther}

PairKeys == {PyTuple(<<a, b>>) : a \in Selectors, b \in Probes}
            \cup {PyTuple(<<a, b>>) : a \in Probes, b \in Selectors}
            \cup {PyTuple(<<a, b>>) : a \in Ints, b \in Ints}
BareKeys == Selectors \cup {PyOther}
TupleKeys == {PyTuple(<<d>>) : d \in Selectors}
             \cup {PyTuple(s) : s \in [1 .. 3 -> {PyLong(0), FullSlice}]}
Keys == PairKeys \cup BareKeys \cup TupleKeys

\* The example of the documentation: a 3 x 4 matrix, rows 0 and 1, all columns.
ExampleArgs == [N |-> 3, M |-> 4, transposed |-> FALSE,
                indices |-> PyTuple(<<PySlice_New(<<0>>, <<2>>, <<>>), FullSlice>>)]

Inputs == [N : 1 .. MaxDim, M : 1 .. MaxDim, transposed : BOOLEAN, indices : Keys]
          \cup {ExampleArgs}

NoMatrices ==
    /\ containers = <<>>
    /\ matrices = <<>>
    /\ iterators = <<>>
    /\ result = NoResult

IdxInit ==
    /\ args \in Inputs
    /\ pc = "start"
    /\ ret = Ok(<<>>)
    /\ NoMatrices

IsIntPair(o) ==
    /\ PyTuple_Check(o)
    /\ PyTuple_Size(o) = 2
    /\ PyLong_Check(PyTuple_GetItem(o, 0))
    /\ PyLong_Check(PyTuple_GetItem(o, 1))

Call_linearize_scalar_indices ==
    /\ pc = "start"
    /\ IsIntPair(args.indices)
    /\ LET lin_idx == linearize_scalar_indices(args.N, args.M, args.transposed,
                          PyTuple_GetItem(args.indices, 0).val,
                          PyTuple_GetItem(args.indices, 1).val)
       IN  ret' = [err |-> IF lin_idx < 0 THEN "IndexError" ELSE "", val |-> <<lin_idx>>]
    /\ pc' = "linearize_scalar_indices"
    /\ UNCHANGED <<args, matVars>>

Call_get_sub_shape ==
    /\ pc = "start"
    /\ ret' = get_sub_shape(args.N, args.M, args.transposed, args.indices)
    /\ pc' = "get_sub_shape"
    /\ UNCHANGED <<args, matVars>>

Call_linearize_indices ==
    /\ pc = "start"
    /\ ret' = linearize_indices(args.N, args.M, args.transposed, args.indices)
    /\ pc' = "linearize_indices"
    /\ UNCHANGED <<args, matVars>>

Call_complete_indices ==
    /\ pc = "start"
    /\ ret' = complete_indices(args.indices)
    /\ pc' = "complete_indices"
    /\ UNCHANGED <<args, matVars>>

IdxNext ==
    \/ Call_linearize_scalar_indices
    \/ Call_get_sub_shape
    \/ Call_linearize_indices
    \/ Call_complete_indices

SpecIdx == IdxInit /\ [][IdxNext]_vars

(***************************************************************************)
(* What the claims are stated with: the logical shape, and the indices a   *)
(* selector denotes on an axis of a given extent (a slice by the           *)
(* host-language rule: normalise a negative endpoint, clamp, then walk     *)
(* from start towards stop).                                               *)
(***************************************************************************)
LogicalRows(a) == IF a.transposed THEN a.M ELSE a.N
LogicalCols(a) == IF a.transposed THEN a.N ELSE a.M

Min(a, b) == IF a < b THEN a ELSE b
Max(a, b) == IF a < b THEN b ELSE a

RECURSIVE Walk(_, _, _)
Walk(x, stop, step) ==
    IF (step > 0 /\ x < stop) \/ (step < 0 /\ x > stop)
    THEN <<x>> \o Walk(x + step, stop, step)
    ELSE <<>>

StepOf(sel) == IF sel.step = <<>> THEN 1 ELSE sel.step[1]

RangeValues(sel, ext) ==
    LET step == StepOf(sel)
        norm(x) == IF x < 0 THEN x + ext ELSE x
        lo == IF step > 0 THEN 0 ELSE -1
        hi == IF step > 0 THEN ext ELSE ext - 1
        start == IF sel.start = <<>>
                 THEN (IF step > 0 THEN 0 ELSE ext - 1)
                 ELSE Max(lo, Min(norm(sel.start[1]), hi))
        stop == IF sel.stop = <<>>
                THEN (IF step > 0 THEN ext ELSE -1)
                ELSE Max(lo, Min(norm(sel.stop[1]), hi))
    IN  IF step = 0 THEN <<>> ELSE Walk(start, stop, step)

IsSelector(o) == PyLong_Check(o) \/ PyTuple_Check(o) \/ PySlice_Check(o)

IsSelectorPair(o) ==
    /\ PyTuple_Check(o)
    /\ PyTuple_Size(o) = 2
    /\ IsSelector(PyTuple_GetItem(o, 0))
    /\ IsSelector(PyTuple_GetItem(o, 1))

\* The index values of a selector, in order.
ResolvedValues(sel, ext) ==
    IF PyLong_Check(sel) THEN <<sel.val>>
    ELSE IF PyTuple_Check(sel) THEN [k \in 1 .. Len(sel.elems) |-> sel.elems[k].val]
    ELSE RangeValues(sel, ext)

ZeroStep(sel) == PySlice_Check(sel) /\ StepOf(sel) = 0
AllIntegers(sel) == PyTuple_Check(sel) => \A k \in 1 .. Len(sel.elems) : PyLong_Check(sel.elems[k])
SomeNonInteger(sel) == PyTuple_Check(sel) /\ \E k \in 1 .. Len(sel.elems) : ~PyLong_Check(sel.elems[k])

\* A Scalar, or an integer element of a List, outside 0 .. ext - 1.
OutOfBounds(sel, ext) ==
    \/ PyLong_Check(sel) /\ sel.val \notin 0 .. ext - 1
    \/ /\ PyTuple_Check(sel)
       /\ \E k \in 1 .. Len(sel.elems) :
              PyLong_Check(sel.elems[k]) /\ sel.elems[k].val \notin 0 .. ext - 1

\* A selector that by itself gives no reason to fail.
ValidSelector(sel, ext) == AllIntegers(sel) /\ ~OutOfBounds(sel, ext) /\ ~ZeroStep(sel)

Sel_i == PyTuple_GetItem(args.indices, 0)
Sel_j == PyTuple_GetItem(args.indices, 1)
Arg_i == Sel_i.val
Arg_j == Sel_j.val

(***************************************************************************)
(* C2: linearize_scalar returns i*cols+j when not transposed and (i, j)    *)
(* lies in rows x cols, j*cols+i when transposed and (j, i) lies in        *)
(* rows x cols, and fails with IndexError for every other (i, j), the      *)
(* negative ones included.                                                 *)
(***************************************************************************)
C2_LinearizeScalar ==
    pc = "linearize_scalar_indices" =>
        IF ~args.transposed /\ Arg_i \in 0 .. args.N - 1 /\ Arg_j \in 0 .. args.M - 1
        THEN ret = Ok(<<Arg_i * args.M + Arg_j>>)
        ELSE IF args.transposed /\ Arg_j \in 0 .. args.N - 1 /\ Arg_i \in 0 .. args.M - 1
        THEN ret = Ok(<<Arg_j * args.M + Arg_i>>)
        ELSE ret.err = "IndexError"

C2_Witness ==
    /\ pc = "linearize_scalar_indices"
    /\ args.transposed
    /\ args.N = 2 /\ args.M = 3
    /\ Arg_i = -1 /\ Arg_j = 1
    /\ ret.err = "IndexError"

(***************************************************************************)
(* C3: for fixed (rows, cols, transposed), linearize_scalar restricted to  *)
(* the in-bounds logical positions is a bijection onto 0 .. rows*cols-1.   *)
(***************************************************************************)
LogicalPositions(a) == (0 .. LogicalRows(a) - 1) \X (0 .. LogicalCols(a) - 1)
OffsetOf(a, p) == linearize_scalar_indices(a.N, a.M, a.transposed, p[1], p[2])

C3_Bijection ==
    pc = "linearize_scalar_indices" =>
        /\ \A p \in LogicalPositions(args) : OffsetOf(args, p) \in 0 .. args.N * args.M - 1
        /\ \A p, q \in LogicalPositions(args) :
               OffsetOf(args, p) = OffsetOf(args, q) => p = q
        /\ \A o \in 0 .. args.N * args.M - 1 :
               \E p \in LogicalPositions(args) : OffsetOf(args, p) = o
        /\ (ret.err = "" => <<Arg_i, Arg_j>> \in LogicalPositions(args))

C3_Witness ==
    /\ pc = "linearize_scalar_indices"
    /\ args.transposed
    /\ args.N = 2 /\ args.M = 3
    /\ Arg_i = 2 /\ Arg_j = 1
    /\ ret = Ok(<<5>>)

C5_Linearize ==
    (pc = "linearize_indices" /\ IsSelectorPair(args.indices)) =>
        LET is == ResolvedValues(Sel_i, LogicalRows(args))
            js == ResolvedValues(Sel_j, LogicalCols(args))
            p == Len(is)
            q == Len(js)
        IN  /\ (ValidSelector(Sel_i, LogicalRows(args)) /\ ValidSelector(Sel_j, LogicalCols(args)))
                   => ret.err = ""
            /\ ret.err = "" =>
                   /\ Len(ret.val) = p * q
                   /\ \A a \in 0 .. p - 1 : \A b \in 0 .. q - 1 :
                          ret.val[a * q + b + 1] =
                              linearize_scalar_indices(args.N, args.M, args.transposed,
                                                       is[a + 1], js[b + 1])

\* A transposed 2 x 3 matrix, the rows (2, 0) by a reversed range of columns.
C5_Witness ==
    /\ IsSelectorPair(args.indices)
    /\ pc = "linearize_indices"
    /\ args.N = 2 /\ args.M = 3 /\ args.transposed
    /\ Sel_i = PyTuple(<<PyLong(2), PyLong(0)>>)
    /\ Sel_j = PySlice_New(<<>>, <<>>, <<-1>>)
    /\ ret = Ok(<<5, 2, 3, 0>>)

(***************************************************************************)
(* C6: resolve_sub_shape returns (n_i, n_j): a Scalar contributes 1, a     *)
(* List its length, a Range the number of indices it resolves to against   *)
(* the logical extent of its axis (rows for axis 0 and cols for axis 1,    *)
(* swapped when transposed); rows=3, cols=4, (Range(0,2), FullRange)       *)
(* gives (2, 4).                                                           *)
(***************************************************************************)
Extent(sel, ext) ==
    IF PyLong_Check(sel) THEN 1
    ELSE IF PyTuple_Check(sel) THEN Len(sel.elems)
    ELSE Len(RangeValues(sel, ext))

C6_SubShape ==
    (pc = "get_sub_shape" /\ IsSelectorPair(args.indices)) =>
        /\ (~ZeroStep(Sel_i) /\ ~ZeroStep(Sel_j)) =>
               ret = Ok(<<Extent(Sel_i, LogicalRows(args)), Extent(Sel_j, LogicalCols(args))>>)
        /\ args = ExampleArgs => ret = Ok(<<2, 4>>)

\* A transposed 2 x 3 matrix has three logical rows: (FullRange, 0) gives (3, 1).
C6_Witness ==
    /\ IsSelectorPair(args.indices)
    /\ pc = "get_sub_shape"
    /\ args.N = 2 /\ args.M = 3 /\ args.transposed
    /\ Sel_i = FullSlice
    /\ Sel_j = PyLong(0)
    /\ ret = Ok(<<3, 1>>)

(***************************************************************************)
(* C7, as claimed: a Range selector never causes an error; for every       *)
(* Range(start, stop, step), a step of 0 included, resolve_sub_shape and   *)
(* linearize succeed (the other selector being valid) and every offset     *)
(* lies in 0 .. rows*cols-1.                                               *)
(***************************************************************************)
RangeOrValid(sel, ext) ==
    PySlice_Check(sel) \/ ValidSelector(sel, ext)

InBuffer(offsets) ==
    \A k \in 1 .. Len(offsets) : offsets[k] \in 0 .. args.N * args.M - 1

C7_Original ==
    (/\ pc \in {"get_sub_shape", "linearize_indices"}
     /\ IsSelectorPair(args.indices)
     /\ PySlice_Check(Sel_i) \/ PySlice_Check(Sel_j)
     /\ RangeOrValid(Sel_i, LogicalRows(args))
     /\ RangeOrValid(Sel_j, LogicalCols(args))) =>
        /\ ret.err = ""
        /\ pc = "linearize_indices" => InBuffer(ret.val)

(***************************************************************************)
(* C7, amended: a Range selector with a step other than 0 never causes an  *)
(* error: with endpoints inside or outside the axis extent and a positive  *)
(* or negative step, resolve_sub_shape and linearize succeed (the other    *)
(* selector being valid) and every offset lies in 0 .. rows*cols-1; a      *)
(* Range with step 0 makes both fail with ValueError.                      *)
(***************************************************************************)
C7_Amended ==
    (/\ pc \in {"get_sub_shape", "linearize_indices"}
     /\ IsSelectorPair(args.indices)
     /\ PySlice_Check(Sel_i) \/ PySlice_Check(Sel_j)) =>
        /\ (ZeroStep(Sel_i) \/ ZeroStep(Sel_j)) => ret.err = "ValueError"
        /\ (/\ ~ZeroStep(Sel_i) /\ ~ZeroStep(Sel_j)
            /\ RangeOrValid(Sel_i, LogicalRows(args))
            /\ RangeOrValid(Sel_j, LogicalCols(args))) =>
               /\ ret.err = ""
               /\ pc = "linearize_indices" => InBuffer(ret.val)

\* Endpoints beyond the extent on both sides and a negative step: slice(4, -4, -2).
C7_Witness ==
    /\ IsSelectorPair(args.indices)
    /\ pc = "linearize_indices"
    /\ args.N = 3 /\ args.M = 2 /\ ~args.transposed
    /\ Sel_i = PySlice_New(<<4>>, <<-4>>, <<-2>>)
    /\ Sel_j = PyLong(0)
    /\ ret = Ok(<<4, 0>>)

(***************************************************************************)
(* C8, as claimed: linearize fails with IndexError whenever a Scalar, or   *)
(* an element of a List, lies outside 0 .. extent-1 of its logical axis,   *)
(* whatever the other selector is, one that resolves to zero elements      *)
(* included.                                                               *)
(***************************************************************************)
C8_Claim ==
    (/\ pc = "linearize_indices"
     /\ IsSelectorPair(args.indices)
     /\ AllIntegers(Sel_i) /\ AllIntegers(Sel_j)
     /\ ~ZeroStep(Sel_i) /\ ~ZeroStep(Sel_j)
     /\ OutOfBounds(Sel_i, LogicalRows(args)) \/ OutOfBounds(Sel_j, LogicalCols(args))) =>
        ret.err = "IndexError"

(***************************************************************************)
(* C9, as claimed: if an element of a List selector is not an integer,     *)
(* linearize fails with TypeError and yields no offsets, whatever the      *)
(* other elements and the other selector are.                              *)
(***************************************************************************)
C9_Claim ==
    (/\ pc = "linearize_indices"
     /\ IsSelectorPair(args.indices)
     /\ SomeNonInteger(Sel_i) \/ SomeNonInteger(Sel_j)) =>
        ret = Raise("TypeError")

(***************************************************************************)
(* C10, as claimed: complete maps a bare Scalar, a bare List and a bare    *)
(* Range d each to (d, FullRange), a 1-tuple (d) to (d, FullRange),        *)
(* returns a 2-tuple unchanged and fails with ValueError for a tuple of    *)
(* any other length.  A bare List is a tuple of integers.                  *)
(***************************************************************************)
IsBareList(o) == PyTuple_Check(o) /\ AllIntegers(o)

C10_Claim ==
    pc = "complete_indices" =>
        LET d == args.indices
        IN  IF PyLong_Check(d) \/ PySlice_Check(d) \/ IsBareList(d)
            THEN ret = Ok(<<d, FullSlice>>)
            ELSE IF PyTuple_Check(d) /\ PyTuple_Size(d) = 1
            THEN ret = Ok(<<PyTuple_GetItem(d, 0), FullSlice>>)
            ELSE IF PyTuple_Check(d) /\ PyTuple_Size(d) = 2
            THEN ret = Ok(d.elems)
            ELSE PyTuple_Check(d) => ret.err = "ValueError"

(***************************************************************************)
(* The Matrix type.  containers[c] is a MatrixContainer: its data and its  *)
(* reference count.  matrices[m] is a Matrix: the container it holds, the  *)
(* physical shape N x M and the transposition flag; view_of records the    *)
(* Matrix whose .t created it (0 for a constructed one).                   *)
(***************************************************************************)
Matrix_N(m) == m.N
Matrix_M(m) == m.M
Matrix_TRANSPOSED(m) == m.transposed
Matrix_SHAPE_I(m) == IF Matrix_TRANSPOSED(m) THEN Matrix_M(m) ELSE Matrix_N(m)
Matrix_SHAPE_J(m) == IF Matrix_TRANSPOSED(m) THEN Matrix_N(m) ELSE Matrix_M(m)
Matrix_DATA(m) == containers[m.container].data
Matrix_SIZE(m) == Len(containers[m.container].data)

MatrixIds == 1 .. Len(matrices)

\* MatrixContainer_NewInternal: length elements, all 0; one reference.
MatrixContainer_NewInternal(length) ==
    [data |-> [k \in 1 .. length |-> 0], refcnt |-> 1]

IsNumber(o) == PyLong_Check(o) \/ PyFloat_Check(o)

(***************************************************************************)
(* Matrix_New: the data of a new N x M Matrix, or the error it raises.     *)
(***************************************************************************)
NewOutcome_reversed(N, M, data) ==
    IF N = 0 \/ M = 0
    THEN Raise("ValueError")
    ELSE IF N * M <= 0
    THEN Raise("ValueError")
    ELSE IF data = PyNULL
    THEN Ok([k \in 1 .. N * M |-> 0])
    ELSE IF IsNumber(data)
    THEN Ok([k \in 1 .. N * M |-> data.val])
    ELSE IF PySequence_Check(data)
    THEN (IF PyTuple_Size(data) # N * M
          THEN Raise("ValueError")
          ELSE IF \E k \in 1 .. N * M : ~IsNumber(data.elems[k])
          THEN Raise("TypeError")
          ELSE Ok([k \in 1 .. N * M |-> data.elems[N * M + 1 - k].val]))
    ELSE Raise("TypeError")

NewOutcome(N, M, data) ==
    IF N = 0 \/ M = 0
    THEN Raise("ValueError")
    ELSE IF N * M <= 0
    THEN Raise("ValueError")
    ELSE IF data = PyNULL
    THEN Ok([k \in 1 .. N * M |-> 0])
    ELSE IF IsNumber(data)
    THEN Ok([k \in 1 .. N * M |-> data.val])
    ELSE IF PySequence_Check(data)
    THEN (IF PyTuple_Size(data) # N * M
          THEN Raise("ValueError")
          ELSE IF \E k \in 1 .. N * M : ~IsNumber(data.elems[k])
          THEN Raise("TypeError")
          ELSE Ok([k \in 1 .. N * M |-> data.elems[k].val]))
    ELSE Raise("TypeError")

Matrix_New_done(N, M, transposed, out) ==
    IF out.err # ""
    THEN /\ result' = Outcome("New", 0, out.err, "", <<>>)
         /\ UNCHANGED <<containers, matrices>>
    ELSE /\ containers' = Append(containers, [data |-> out.val, refcnt |-> 1])
         /\ matrices' = Append(matrices,
                [container |-> Len(containers) + 1, N |-> N, M |-> M,
                 transposed |-> transposed, view_of |-> 0, ob_refcnt |-> 1])
         /\ result' = Outcome("New", Len(matrices) + 1, "", "matrix", <<Len(matrices) + 1>>)

Matrix_New(N, M, data, transposed) ==
    Matrix_New_done(N, M, transposed, NewOutcome(N, M, data))

(***************************************************************************)
(* Matrix_GetTransposed (.t): a new Matrix on the same container, with the *)
(* flag flipped; the container gains a reference.                          *)
(***************************************************************************)
Matrix_GetTransposed_sameflag(self) ==
    LET m == matrices[self]
        id == Len(matrices) + 1
    IN  /\ containers' = [containers EXCEPT ![m.container].refcnt = @ + 1]
        /\ matrices' = Append(matrices,
               [container |-> m.container, N |-> m.N, M |-> m.M,
                transposed |-> m.transposed, view_of |-> self, ob_refcnt |-> 1])
        /\ result' = Outcome("GetTransposed", self, "", "matrix", <<id>>)

Matrix_GetTransposed(self) ==
    LET m == matrices[self]
        id == Len(matrices) + 1
    IN  /\ containers' = [containers EXCEPT ![m.container].refcnt = @ + 1]
        /\ matrices' = Append(matrices,
               [container |-> m.container, N |-> m.N, M |-> m.M,
                transposed |-> ~m.transposed, view_of |-> self, ob_refcnt |-> 1])
        /\ result' = Outcome("GetTransposed", self, "", "matrix", <<id>>)

(***************************************************************************)
(* Matrix_GetItem: one element as a float, or the selected elements as the *)
(* data of a new untransposed sub_N x sub_M Matrix.                        *)
(***************************************************************************)
GetItemFailed(err) == [err |-> err, kind |-> "", N |-> 0, M |-> 0, data |-> <<>>]

GetItem_selected_swapped(m, sub_N, sub_M, sub_idx) ==
    IF sub_idx.err # ""
    THEN GetItemFailed(sub_idx.err)
    ELSE IF Len(sub_idx.val) > 1
    THEN [err |-> "", kind |-> "matrix", N |-> sub_M, M |-> sub_N,
          data |-> [i \in 1 .. sub_N * sub_M |-> Matrix_DATA(m)[sub_idx.val[i] + 1]]]
    ELSE IF Len(sub_idx.val) = 1
    THEN [err |-> "", kind |-> "float", N |-> 0, M |-> 0,
          data |-> <<Matrix_DATA(m)[sub_idx.val[1] + 1]>>]
    ELSE GetItemFailed("ValueError")

GetItem_selected(m, sub_N, sub_M, sub_idx) ==
    IF sub_idx.err # ""
    THEN GetItemFailed(sub_idx.err)
    ELSE IF Len(sub_idx.val) > 1
    THEN [err |-> "", kind |-> "matrix", N |-> sub_N, M |-> sub_M,
          data |-> [i \in 1 .. sub_N * sub_M |-> Matrix_DATA(m)[sub_idx.val[i] + 1]]]
    ELSE IF Len(sub_idx.val) = 1
    THEN [err |-> "", kind |-> "float", N |-> 0, M |-> 0,
          data |-> <<Matrix_DATA(m)[sub_idx.val[1] + 1]>>]
    ELSE GetItemFailed("ValueError")

GetItem_shaped(m, idx, sub_shape) ==
    IF sub_shape.err # ""
    THEN GetItemFailed(sub_shape.err)
    ELSE GetItem_selected(m, sub_shape.val[1], sub_shape.val[2],
                          linearize_indices(m.N, m.M, m.transposed, idx))

GetItem_completed(m, idx) ==
    IF idx.err # ""
    THEN GetItemFailed(idx.err)
    ELSE GetItem_shaped(m, PyTuple(idx.val),
                        get_sub_shape(m.N, m.M, m.transposed, PyTuple(idx.val)))

GetItemOutcome(m, key) == GetItem_completed(m, complete_indices(key))

\* The sub-matrix laid over the buffer of self instead of a copy.
Matrix_GetItem_done_shared(self, out) ==
    IF out.kind = "matrix"
    THEN /\ containers' = [containers EXCEPT ![matrices[self].container].refcnt = @ + 1]
         /\ matrices' = Append(matrices,
                [container |-> matrices[self].container, N |-> out.N, M |-> out.M,
                 transposed |-> FALSE, view_of |-> 0, ob_refcnt |-> 1])
         /\ result' = Outcome("GetItem", self, "", "matrix", <<Len(matrices) + 1>>)
    ELSE /\ result' = Outcome("GetItem", self, out.err, out.kind, out.data)
         /\ UNCHANGED <<containers, matrices>>

Matrix_GetItem_done(self, out) ==
    IF out.kind = "matrix"
    THEN /\ containers' = Append(containers, [data |-> out.data, refcnt |-> 1])
         /\ matrices' = Append(matrices,
                [container |-> Len(containers) + 1, N |-> out.N, M |-> out.M,
                 transposed |-> FALSE, view_of |-> 0, ob_refcnt |-> 1])
         /\ result' = Outcome("GetItem", self, "", "matrix", <<Len(matrices) + 1>>)
    ELSE /\ result' = Outcome("GetItem", self, out.err, out.kind, out.data)
         /\ UNCHANGED <<containers, matrices>>

Matrix_GetItem(self, key) ==
    Matrix_GetItem_done(self, GetItemOutcome(matrices[self], key))

(***************************************************************************)
(* Matrix_SetItem.  The loops write element by element: a Matrix value is  *)
(* read through its own select_all order from the data as it is at that    *)
(* moment, and a sequence is type-checked element by element while the     *)
(* earlier ones are already stored.                                        *)
(***************************************************************************)
RECURSIVE SetFromMatrix_raw(_, _, _, _, _, _, _)
SetFromMatrix_raw(data, value_data, aliased, sub_idx, value_idx, sub_length, i) ==
    IF i >= sub_length
    THEN data
    ELSE LET source == IF aliased THEN data ELSE value_data
         IN  SetFromMatrix_raw([data EXCEPT ![sub_idx[i + 1] + 1] = source[i + 1]],
                               value_data, aliased, sub_idx, value_idx, sub_length, i + 1)

RECURSIVE SetFromMatrix(_, _, _, _, _, _, _)
SetFromMatrix(data, value_data, aliased, sub_idx, value_idx, sub_length, i) ==
    IF i >= sub_length
    THEN data
    ELSE LET source == IF aliased THEN data ELSE value_data
         IN  SetFromMatrix([data EXCEPT ![sub_idx[i + 1] + 1] = source[value_idx[i + 1] + 1]],
                           value_data, aliased, sub_idx, value_idx, sub_length, i + 1)

RECURSIVE SetFromSequence_shifted(_, _, _, _, _)
SetFromSequence_shifted(data, sub_idx, value, sub_length, i) ==
    IF i >= sub_length
    THEN [err |-> "", data |-> data]
    ELSE IF ~IsNumber(value.elems[i + 1])
    THEN [err |-> "TypeError", data |-> data]
    ELSE SetFromSequence_shifted(
             [data EXCEPT ![sub_idx[((i + 1) % sub_length) + 1] + 1] = value.elems[i + 1].val],
             sub_idx, value, sub_length, i + 1)

RECURSIVE SetFromSequence(_, _, _, _, _)
SetFromSequence(data, sub_idx, value, sub_length, i) ==
    IF i >= sub_length
    THEN [err |-> "", data |-> data]
    ELSE IF ~IsNumber(value.elems[i + 1])
    THEN [err |-> "TypeError", data |-> data]
    ELSE SetFromSequence([data EXCEPT ![sub_idx[i + 1] + 1] = value.elems[i + 1].val],
                         sub_idx, value, sub_length, i + 1)

SetFromScalar(data, sub_idx, value_data, sub_length) ==
    [k \in 1 .. Len(data) |->
        IF \E i \in 1 .. sub_length : sub_idx[i] + 1 = k THEN value_data ELSE data[k]]

SetItemResult(err, data) == [err |-> err, data |-> data]

SetItem_selected(m, value, sub_N, sub_M, sub_idx) ==
    IF sub_idx.err # ""
    THEN SetItemResult(sub_idx.err, Matrix_DATA(m))
    ELSE IF Matrix_Check(value)
    THEN (IF Matrix_SHAPE_I(matrices[value.val]) # sub_N
             \/ Matrix_SHAPE_J(matrices[value.val]) # sub_M
          THEN SetItemResult("ValueError", Matrix_DATA(m))
          ELSE SetItemResult("",
                   SetFromMatrix(Matrix_DATA(m), Matrix_DATA(matrices[value.val]),
                                 matrices[value.val].container = m.container,
                                 sub_idx.val,
                                 select_all(matrices[value.val].N, matrices[value.val].M,
                                            matrices[value.val].transposed).val,
                                 sub_N * sub_M, 0)))
    ELSE IF PySequence_Check(value)
    THEN (IF PyTuple_Size(value) # sub_N * sub_M
          THEN SetItemResult("ValueError", Matrix_DATA(m))
          ELSE SetFromSequence(Matrix_DATA(m), sub_idx.val, value, sub_N * sub_M, 0))
    ELSE IF IsNumber(value)
    THEN SetItemResult("", SetFromScalar(Matrix_DATA(m), sub_idx.val, value.val, sub_N * sub_M))
    ELSE SetItemResult("TypeError", Matrix_DATA(m))

SetItem_shaped(m, value, idx, sub_shape) ==
    IF sub_shape.err # ""
    THEN SetItemResult(sub_shape.err, Matrix_DATA(m))
    ELSE SetItem_selected(m, value, sub_shape.val[1], sub_shape.val[2],
                          linearize_indices(m.N, m.M, m.transposed, idx))

SetItem_completed(m, value, idx) ==
    IF idx.err # ""
    THEN SetItemResult(idx.err, Matrix_DATA(m))
    ELSE SetItem_shaped(m, value, PyTuple(idx.val),
                        get_sub_shape(m.N, m.M, m.transposed, PyTuple(idx.val)))

SetItemOutcome(m, key, value) == SetItem_completed(m, value, complete_indices(key))

Matrix_SetItem_done(self, out) ==
    /\ containers' = [containers EXCEPT ![matrices[self].container].data = out.data]
    /\ result' = Outcome("SetItem", self, out.err, "", <<>>)
    /\ UNCHANGED matrices

Matrix_SetItem(self, key, value) ==
    Matrix_SetItem_done(self, SetItemOutcome(matrices[self], key, value))

(***************************************************************************)
(* The arithmetic of MatrixDataType.  Sums, differences and products of    *)
(* the small integers used here are exact.  A quotient is kept as the pair *)
(* <<numerator, denominator>> in lowest terms with a positive denominator; *)
(* a division by zero that the code does not intercept yields the IEEE     *)
(* infinity <<1, 0>> or <<-1, 0>>, or the NaN <<0, 0>>.                    *)
(***************************************************************************)
RECURSIVE Gcd(_, _)
Gcd(a, b) == IF b = 0 THEN a ELSE Gcd(b, a % b)

fabs(x) == IF x < 0 THEN -x ELSE x

Sign(x) == IF x < 0 THEN -1 ELSE IF x > 0 THEN 1 ELSE 0

FloatDiv(a, b) ==
    IF b = 0
    THEN <<Sign(a), 0>>
    ELSE <<(Sign(b) * a) \div Gcd(fabs(a), fabs(b)), fabs(b) \div Gcd(fabs(a), fabs(b))>>

FloatOp(op, a, b) ==
    CASE op = "add" -> a + b
      [] op = "sub" -> a - b
      [] op = "mul" -> a * b
      [] op = "div" -> FloatDiv(a, b)

(***************************************************************************)
(* What an operator of the Matrix type returns: an exception, a new Matrix *)
(* (its physical shape, flag and data), a float, or NotImplemented.        *)
(***************************************************************************)
OpRaise(err) ==
    [err |-> err, kind |-> "", N |-> 0, M |-> 0, transposed |-> FALSE, data |-> <<>>]
OpMatrix(N, M, transposed, data) ==
    [err |-> "", kind |-> "matrix", N |-> N, M |-> M, transposed |-> transposed, data |-> data]
OpFloat(x) ==
    [err |-> "", kind |-> "float", N |-> 0, M |-> 0, transposed |-> FALSE, data |-> <<x>>]
OpNotImplemented ==
    [err |-> "", kind |-> "NotImplemented", N |-> 0, M |-> 0, transposed |-> FALSE, data |-> <<>>]

\* The returned Matrix laid over the buffer of the first Matrix.
Matrix_Return_shared(op, self, out) ==
    IF out.kind = "matrix"
    THEN /\ containers' = [containers EXCEPT ![1].refcnt = @ + 1]
         /\ matrices' = Append(matrices,
                [container |-> 1, N |-> matrices[1].N, M |-> matrices[1].M,
                 transposed |-> out.transposed, view_of |-> 0, ob_refcnt |-> 1])
         /\ result' = Outcome(op, self, "", "matrix", <<Len(matrices) + 1>>)
    ELSE /\ result' = Outcome(op, self, out.err, out.kind, out.data)
         /\ UNCHANGED <<containers, matrices>>

\* The caller receives the outcome; a returned Matrix is a new object that
\* holds a new container.
Matrix_Return(op, self, out) ==
    IF out.kind = "matrix"
    THEN /\ containers' = Append(containers, [data |-> out.data, refcnt |-> 1])
         /\ matrices' = Append(matrices,
                [container |-> Len(containers) + 1, N |-> out.N, M |-> out.M,
                 transposed |-> out.transposed, view_of |-> 0, ob_refcnt |-> 1])
         /\ result' = Outcome(op, self, "", "matrix", <<Len(matrices) + 1>>)
    ELSE /\ result' = Outcome(op, self, out.err, out.kind, out.data)
         /\ UNCHANGED <<containers, matrices>>

(***************************************************************************)
(* Matrix_Negative, Matrix_Positive, Matrix_Absolute: a new Matrix with    *)
(* the physical shape and the flag of self, element by element.            *)
(***************************************************************************)
UnaryOutcome(op, m) ==
    OpMatrix(m.N, m.M, m.transposed,
             [i \in 1 .. Matrix_SIZE(m) |->
                 CASE op = "neg" -> -Matrix_DATA(m)[i]
                   [] op = "pos" -> Matrix_DATA(m)[i]
                   [] op = "abs" -> fabs(Matrix_DATA(m)[i])])

Matrix_Negative(self) == Matrix_Return("neg", self, UnaryOutcome("neg", matrices[self]))
Matrix_Positive(self) == Matrix_Return("pos", self, UnaryOutcome("pos", matrices[self]))
Matrix_Absolute(self) == Matrix_Return("abs", self, UnaryOutcome("abs", matrices[self]))

(***************************************************************************)
(* Matrix_Add, Matrix_Subtract, Matrix_Multiply, Matrix_TrueDivide.        *)
(* Two matrices of equal logical shape are paired through select_all of    *)
(* each; the result has the physical shape and the flag of the first.  A   *)
(* number is applied to every element of the buffer of the Matrix.         *)
(***************************************************************************)
RECURSIVE ElementwiseLoop_sameoffset(_, _, _, _, _, _, _, _)
ElementwiseLoop_sameoffset(op, fm, res, fdata, sdata, flinidx, slinidx, i) ==
    IF i >= Len(flinidx)
    THEN OpMatrix(fm.N, fm.M, fm.transposed, res)
    ELSE IF op = "div" /\ sdata[flinidx[i + 1] + 1] = 0
    THEN OpRaise("ZeroDivisionError")
    ELSE ElementwiseLoop_sameoffset(op, fm,
             [res EXCEPT ![flinidx[i + 1] + 1] =
                 FloatOp(op, fdata[flinidx[i + 1] + 1], sdata[flinidx[i + 1] + 1])],
             fdata, sdata, flinidx, slinidx, i + 1)

RECURSIVE ElementwiseLoop(_, _, _, _, _, _, _, _)
ElementwiseLoop(op, fm, res, fdata, sdata, flinidx, slinidx, i) ==
    IF i >= Len(flinidx)
    THEN OpMatrix(fm.N, fm.M, fm.transposed, res)
    ELSE IF op = "div" /\ sdata[slinidx[i + 1] + 1] = 0
    THEN OpRaise("ZeroDivisionError")
    ELSE ElementwiseLoop(op, fm,
             [res EXCEPT ![flinidx[i + 1] + 1] =
                 FloatOp(op, fdata[flinidx[i + 1] + 1], sdata[slinidx[i + 1] + 1])],
             fdata, sdata, flinidx, slinidx, i + 1)

ElementwiseSelected(op, fm, sm, flinidx, slinidx) ==
    IF flinidx.err # "" THEN OpRaise(flinidx.err)
    ELSE IF slinidx.err # "" THEN OpRaise(slinidx.err)
    ELSE ElementwiseLoop(op, fm, MatrixContainer_NewInternal(fm.N * fm.M).data,
                         Matrix_DATA(fm), Matrix_DATA(sm), flinidx.val, slinidx.val, 0)

ElementwiseOutcome(op, fm, sm) ==
    IF Matrix_SHAPE_I(fm) = Matrix_SHAPE_I(sm) /\ Matrix_SHAPE_J(fm) = Matrix_SHAPE_J(sm)
    THEN ElementwiseSelected(op, fm, sm,
                             select_all(fm.N, fm.M, fm.transposed),
                             select_all(sm.N, sm.M, sm.transposed))
    ELSE OpRaise("ValueError")

MatrixScalarOutcome_unchecked(op, m, second_value) ==
    OpMatrix(m.N, m.M, m.transposed,
             [i \in 1 .. Matrix_SIZE(m) |-> FloatOp(op, Matrix_DATA(m)[i], second_value)])

\* Matrix op number: only Matrix_TrueDivide tests the number, the divisor.
MatrixScalarOutcome(op, m, second_value) ==
    IF op = "div" /\ second_value = 0
    THEN OpRaise("ZeroDivisionError")
    ELSE OpMatrix(m.N, m.M, m.transposed,
                  [i \in 1 .. Matrix_SIZE(m) |-> FloatOp(op, Matrix_DATA(m)[i], second_value)])

ScalarMatrixOutcome_swapped(op, first_value, m) ==
    IF op = "div" /\ first_value = 0
    THEN OpRaise("ZeroDivisionError")
    ELSE OpMatrix(m.N, m.M, m.transposed,
                  [i \in 1 .. Matrix_SIZE(m) |-> FloatOp(op, Matrix_DATA(m)[i], first_value)])

\* number op Matrix: Matrix_TrueDivide tests the number, here the dividend,
\* and divides it by every element without a test.
ScalarMatrixOutcome(op, first_value, m) ==
    IF op = "div" /\ first_value = 0
    THEN OpRaise("ZeroDivisionError")
    ELSE OpMatrix(m.N, m.M, m.transposed,
                  [i \in 1 .. Matrix_SIZE(m) |-> FloatOp(op, first_value, Matrix_DATA(m)[i])])

BinaryOutcome(op, first, second) ==
    IF Matrix_Check(first) /\ Matrix_Check(second)
    THEN ElementwiseOutcome(op, matrices[first.val], matrices[second.val])
    ELSE IF Matrix_Check(first) /\ IsNumber(second)
    THEN MatrixScalarOutcome(op, matrices[first.val], second.val)
    ELSE IF IsNumber(first) /\ Matrix_Check(second)
    THEN ScalarMatrixOutcome(op, first.val, matrices[second.val])
    ELSE OpNotImplemented

Matrix_Add(first, second) == Matrix_Return("add", 0, BinaryOutcome("add", first, second))
Matrix_Subtract(first, second) == Matrix_Return("sub", 0, BinaryOutcome("sub", first, second))
Matrix_Multiply(first, second) == Matrix_Return("mul", 0, BinaryOutcome("mul", first, second))
Matrix_TrueDivide(first, second) == Matrix_Return("div", 0, BinaryOutcome("div", first, second))

(***************************************************************************)
(* Matrix_MatMultiply (@): for logical shapes N x K and K x M the N x M    *)
(* untransposed product; a float when N = 1 and M = 1.                     *)
(***************************************************************************)
RECURSIVE DotLoop(_, _, _, _, _)
DotLoop(fdata, sdata, K, k, acc) ==
    IF k >= K THEN acc
    ELSE DotLoop(fdata, sdata, K, k + 1, acc + fdata[k + 1] * sdata[k + 1])

RECURSIVE MatMulInner(_, _, _, _, _, _, _)
MatMulInner(fm, sm, K, i, j, k, temp) ==
    IF k >= K THEN temp
    ELSE MatMulInner(fm, sm, K, i, j, k + 1,
             temp + Matrix_DATA(fm)[linearize_scalar_indices(fm.N, fm.M, fm.transposed, i, k) + 1]
                  * Matrix_DATA(sm)[linearize_scalar_indices(sm.N, sm.M, sm.transposed, k, j) + 1])

RECURSIVE MatMulLoop_colmajor(_, _, _, _, _, _, _, _)
MatMulLoop_colmajor(fm, sm, N, K, M, i, j, res) ==
    IF i >= N THEN res
    ELSE IF j >= M THEN MatMulLoop_colmajor(fm, sm, N, K, M, i + 1, 0, res)
    ELSE MatMulLoop_colmajor(fm, sm, N, K, M, i, j + 1,
             [res EXCEPT ![linearize_scalar_indices(N, M, TRUE, i, j) + 1] =
                 MatMulInner(fm, sm, K, i, j, 0, 0)])

RECURSIVE MatMulLoop(_, _, _, _, _, _, _, _)
MatMulLoop(fm, sm, N, K, M, i, j, res) ==
    IF i >= N THEN res
    ELSE IF j >= M THEN MatMulLoop(fm, sm, N, K, M, i + 1, 0, res)
    ELSE MatMulLoop(fm, sm, N, K, M, i, j + 1,
             [res EXCEPT ![linearize_scalar_indices(N, M, FALSE, i, j) + 1] =
                 MatMulInner(fm, sm, K, i, j, 0, 0)])

MatMulData(fm, sm, N, K, M) ==
    MatMulLoop(fm, sm, N, K, M, 0, 0, MatrixContainer_NewInternal(N * M).data)

MatMulOutcome(fm, sm) ==
    IF Matrix_SHAPE_J(fm) = Matrix_SHAPE_I(sm)
    THEN (IF Matrix_SHAPE_I(fm) = 1 /\ Matrix_SHAPE_J(sm) = 1
          THEN OpFloat(DotLoop(Matrix_DATA(fm), Matrix_DATA(sm), Matrix_SHAPE_J(fm), 0, 0))
          ELSE OpMatrix(Matrix_SHAPE_I(fm), Matrix_SHAPE_J(sm), FALSE,
                        MatMulData(fm, sm, Matrix_SHAPE_I(fm), Matrix_SHAPE_J(fm),
                                   Matrix_SHAPE_J(sm))))
    ELSE OpRaise("ValueError")

Matrix_MatMultiply(first, second) ==
    Matrix_Return("matmul", 0,
        IF Matrix_Check(first) /\ Matrix_Check(second)
        THEN MatMulOutcome(matrices[first.val], matrices[second.val])
        ELSE OpNotImplemented)

(***************************************************************************)
(* The callers of the Matrix type: the arguments the operations are called *)
(* with.                                                                   *)
(***************************************************************************)
Values == 0 .. MaxValue
Numbers == {PyLong(v) : v \in Values}
NumberTuples == {PyTuple(s) : s \in SeqsUpTo(Numbers, MaxLen)}

NewShapes == -1 .. MaxShape
NewData == {PyNULL, PyLong(MaxValue), PyOther, PyTuple(<<PyOther>>)} \cup NumberTuples

MatSelectors == {PyLong(0), PyLong(1), FullSlice}
MatKeys == {PyTuple(<<a, b>>) : a \in MatSelectors, b \in MatSelectors}
           \cup {PyLong(0), FullSlice, PyOther,
                 PyTuple(<<PyTuple(<<PyLong(1), PyLong(0)>>), FullSlice>>),
                 PyTuple(<<PyLong(MaxShape), PyLong(0)>>)}

SetValues == Numbers
             \cup {PyTuple(<<PyLong(0), PyLong(MaxValue)>>),
                   PyTuple(<<PyLong(MaxValue), PyOther>>), PyOther}
             \cup {PyMatrix(id) : id \in MatrixIds}

MatInit ==
    /\ containers = <<>>
    /\ matrices = <<>>
    /\ iterators = <<>>
    /\ result = NoResult
    /\ args = ExampleArgs
    /\ pc = "matrix"
    /\ ret = Ok(<<>>)

New ==
    /\ Len(matrices) < MaxMatrices
    /\ Len(containers) < MaxContainers
    /\ \E N \in NewShapes, M \in NewShapes, data \in NewData, transposed \in BOOLEAN :
           Matrix_New(N, M, data, transposed)
    /\ UNCHANGED <<idxVars, iterators>>

GetTransposed ==
    /\ Len(matrices) < MaxMatrices
    /\ \E self \in MatrixIds : Matrix_GetTransposed(self)
    /\ UNCHANGED <<idxVars, iterators>>

\* A Get that returns a sub-matrix needs room for a Matrix and its container.
HasRoom == Len(matrices) < MaxMatrices /\ Len(containers) < MaxContainers

GetItem ==
    /\ \E self \in MatrixIds, key \in MatKeys :
           /\ HasRoom \/ GetItemOutcome(matrices[self], key).kind # "matrix"
           /\ Matrix_GetItem(self, key)
    /\ UNCHANGED <<idxVars, iterators>>

SetItem ==
    /\ \E self \in MatrixIds, key \in MatKeys, value \in SetValues :
           Matrix_SetItem(self, key, value)
    /\ UNCHANGED <<idxVars, iterators>>

Next ==
    \/ New
    \/ GetTransposed
    \/ GetItem
    \/ SetItem

Spec == MatInit /\ [][Next]_vars

(***************************************************************************)
(* The views of a Matrix.  ViewDepth(v, m) is the number of .t steps that   *)
(* lead from m to v, or -1 when v was not reached from m.                  *)
(***************************************************************************)
RECURSIVE ViewDepth(_, _)
ViewDepth(v, m) ==
    IF v = m THEN 0
    ELSE IF matrices[v].view_of = 0 THEN -1
    ELSE LET d == ViewDepth(matrices[v].view_of, m)
         IN  IF d < 0 THEN -1 ELSE d + 1

Flipped(flag, k) == IF k % 2 = 1 THEN ~flag ELSE flag

Position(a, b) == PyTuple(<<PyLong(a), PyLong(b)>>)

\* C1: a view v reached from a Matrix m by k >= 1 applications of .t shares m's
\* buffer and carries m's flag flipped k times; in every state, so after any
\* sequence of Set operations through m or a view, Get through v at a valid
\* position (a, b) returns the float that Get through m returns at (b, a) when
\* k is odd and at (a, b) when k is even.
C1_Views ==
    \A m \in MatrixIds, v \in MatrixIds :
        ViewDepth(v, m) >= 1 =>
            /\ matrices[v].container = matrices[m].container
            /\ Matrix_TRANSPOSED(matrices[v])
                   = Flipped(Matrix_TRANSPOSED(matrices[m]), ViewDepth(v, m))
            /\ \A a \in 0 .. Matrix_SHAPE_I(matrices[v]) - 1,
                  b \in 0 .. Matrix_SHAPE_J(matrices[v]) - 1 :
                   /\ GetItemOutcome(matrices[v], Position(a, b)).err = ""
                   /\ GetItemOutcome(matrices[v], Position(a, b)).kind = "float"
                   /\ GetItemOutcome(matrices[v], Position(a, b))
                         = GetItemOutcome(matrices[m],
                               IF ViewDepth(v, m) % 2 = 1
                               THEN Position(b, a) ELSE Position(a, b))

\* A 1 x 2 Matrix with its view m.t and the view m.t.t, whose elements differ
\* after a successful Set through m.t.
C1_Witness ==
    /\ Len(matrices) = 3
    /\ ViewDepth(2, 1) = 1
    /\ ViewDepth(3, 1) = 2
    /\ Matrix_N(matrices[1]) = 1
    /\ Matrix_M(matrices[1]) = 2
    /\ result.op = "SetItem"
    /\ result.self = 2
    /\ result.err = ""
    /\ Matrix_DATA(matrices[1]) = <<0, 1>>

(***************************************************************************)
(* A caller that constructs two matrices A and B, may take the view x.t of  *)
(* one of them, applies one operation of the Matrix type, and follows it   *)
(* up: with the Get of the key it has just Set, or with a Set through one  *)
(* of the matrices it now holds.                                           *)
(* args holds the caller's variables: the operands, the key and the value. *)
(***************************************************************************)
OpShapes == 1 .. MaxShape

\* The flat data lo, lo + 1, ..., of length n.
Ramp(n, lo) == PyTuple([k \in 1 .. n |-> PyLong(lo + k - 1)])

\* A is filled with -1, 0, 1, ...; B with the same or with 1, 2, 3, ...
OpData(id, n) == IF id = 1 THEN {Ramp(n, -1)} ELSE {Ramp(n, -1), Ramp(n, 1)}

\* A number that no element of A or B holds.
Fresh(k) == PyLong(MaxShape * MaxShape + k)

OpSelectors == {PyLong(0), PyLong(1),
                PyTuple(<<PyLong(1), PyLong(0)>>), PyTuple(<<PyLong(0), PyLong(0)>>),
                FullSlice, PySlice_New(<<>>, <<>>, <<-1>>)}
OpKeys == {PyTuple(<<a, b>>) : a \in OpSelectors, b \in OpSelectors}
          \cup {PyLong(0), FullSlice,
                PyTuple(<<PySlice_New(<<0>>, <<0>>, <<>>), PyLong(0)>>),
                PyTuple(<<PyTuple(<<>>), FullSlice>>),
                PyTuple(<<PyLong(MaxShape), PyLong(0)>>)}

OpValues == {Fresh(1), PyOther, PyTuple(<<Fresh(1), PyOther>>)}
            \cup {PyTuple([k \in 1 .. n |-> Fresh(k)]) : n \in 1 .. MaxShape * MaxShape}
            \cup {PyMatrix(id) : id \in MatrixIds}

Operands == {PyMatrix(id) : id \in MatrixIds} \cup {PyLong(0), PyLong(2), PyOther}
OperandPairs == {p \in Operands \X Operands : Matrix_Check(p[1]) \/ Matrix_Check(p[2])}

NoArgs == [first |-> PyNULL, second |-> PyNULL, key |-> PyNULL, value |-> PyNULL]

OpsInit ==
    /\ containers = <<>>
    /\ matrices = <<>>
    /\ iterators = <<>>
    /\ result = NoResult
    /\ args = NoArgs
    /\ pc = "construct"
    /\ ret = Ok(<<>>)

Ops_Construct ==
    /\ pc = "construct"
    /\ \E N \in OpShapes, M \in OpShapes, transposed \in BOOLEAN :
           \E data \in OpData(Len(matrices) + 1, N * M) :
               Matrix_New(N, M, data, transposed)
    /\ pc' = IF Len(matrices) = 0 THEN "construct" ELSE "operate"
    /\ UNCHANGED <<args, ret, iterators>>

Ops_GetTransposed ==
    /\ pc = "operate"
    /\ \E self \in MatrixIds :
           /\ Matrix_GetTransposed(self)
           /\ args' = [NoArgs EXCEPT !.first = PyMatrix(self)]
    /\ pc' = "follow"
    /\ UNCHANGED <<ret, iterators>>

\* x.t of A or of B, kept by the caller as a third operand.
Ops_View ==
    /\ pc = "operate"
    /\ Len(matrices) = 2
    /\ \E self \in MatrixIds : Matrix_GetTransposed(self)
    /\ pc' = "operate"
    /\ UNCHANGED <<args, ret, iterators>>

Ops_GetItem ==
    /\ pc = "operate"
    /\ \E key \in OpKeys :
           /\ Matrix_GetItem(1, key)
           /\ args' = [NoArgs EXCEPT !.first = PyMatrix(1), !.key = key]
    /\ pc' = "follow"
    /\ UNCHANGED <<ret, iterators>>

Ops_SetItem ==
    /\ pc = "operate"
    /\ \E key \in OpKeys, value \in OpValues :
           /\ Matrix_SetItem(1, key, value)
           /\ args' = [NoArgs EXCEPT !.first = PyMatrix(1), !.key = key, !.value = value]
    /\ pc' = "follow"
    /\ UNCHANGED <<ret, iterators>>

Ops_Negative ==
    /\ pc = "operate"
    /\ \E self \in MatrixIds :
           /\ Matrix_Negative(self)
           /\ args' = [NoArgs EXCEPT !.first = PyMatrix(self)]
    /\ pc' = "follow"
    /\ UNCHANGED <<ret, iterators>>

Ops_Positive ==
    /\ pc = "operate"
    /\ \E self \in MatrixIds :
           /\ Matrix_Positive(self)
           /\ args' = [NoArgs EXCEPT !.first = PyMatrix(self)]
    /\ pc' = "follow"
    /\ UNCHANGED <<ret, iterators>>

Ops_Absolute ==
    /\ pc = "operate"
    /\ \E self \in MatrixIds :
           /\ Matrix_Absolute(self)
           /\ args' = [NoArgs EXCEPT !.first = PyMatrix(self)]
    /\ pc' = "follow"
    /\ UNCHANGED <<ret, iterators>>

Ops_Add ==
    /\ pc = "operate"
    /\ \E p \in OperandPairs :
           /\ Matrix_Add(p[1], p[2])
           /\ args' = [NoArgs EXCEPT !.first = p[1], !.second = p[2]]
    /\ pc' = "follow"
    /\ UNCHANGED <<ret, iterators>>

Ops_Subtract ==
    /\ pc = "operate"
    /\ \E p \in OperandPairs :
           /\ Matrix_Subtract(p[1], p[2])
           /\ args' = [NoArgs EXCEPT !.first = p[1], !.second = p[2]]
    /\ pc' = "follow"
    /\ UNCHANGED <<ret, iterators>>

Ops_Multiply ==
    /\ pc = "operate"
    /\ \E p \in OperandPairs :
           /\ Matrix_Multiply(p[1], p[2])
           /\ args' = [NoArgs EXCEPT !.first = p[1], !.second = p[2]]
    /\ pc' = "follow"
    /\ UNCHANGED <<ret, iterators>>

Ops_TrueDivide ==
    /\ pc = "operate"
    /\ \E p \in OperandPairs :
           /\ Matrix_TrueDivide(p[1], p[2])
           /\ args' = [NoArgs EXCEPT !.first = p[1], !.second = p[2]]
    /\ pc' = "follow"
    /\ UNCHANGED <<ret, iterators>>

Ops_MatMultiply ==
    /\ pc = "operate"
    /\ \E p \in OperandPairs :
           /\ Matrix_MatMultiply(p[1], p[2])
           /\ args' = [NoArgs EXCEPT !.first = p[1], !.second = p[2]]
    /\ pc' = "follow"
    /\ UNCHANGED <<ret, iterators>>

\* m[key] = value; m[key]
Ops_GetBack ==
    /\ pc = "follow"
    /\ result.op = "SetItem"
    /\ result.err = ""
    /\ Matrix_GetItem(args.first.val, args.key)
    /\ pc' = "end"
    /\ UNCHANGED <<args, ret, iterators>>

\* x[:, :] = a number no Matrix holds, through any Matrix x the caller holds.
Ops_LaterSet ==
    /\ pc = "follow"
    /\ \E self \in MatrixIds :
           Matrix_SetItem(self, PyTuple(<<FullSlice, FullSlice>>), Fresh(0))
    /\ pc' = "end"
    /\ UNCHANGED <<args, ret, iterators>>

OpsNext ==
    \/ Ops_Construct
    \/ Ops_GetTransposed
    \/ Ops_View
    \/ Ops_GetItem
    \/ Ops_SetItem
    \/ Ops_Negative
    \/ Ops_Positive
    \/ Ops_Absolute
    \/ Ops_Add
    \/ Ops_Subtract
    \/ Ops_Multiply
    \/ Ops_TrueDivide
    \/ Ops_MatMultiply
    \/ Ops_GetBack
    \/ Ops_LaterSet

SpecOps == OpsInit /\ [][OpsNext]_vars

(***************************************************************************)
(* What the claims about the Matrix operations are stated with: the        *)
(* logical element (i, j) of a Matrix, and the elements a key selects, in  *)
(* i-major order.  A bare Scalar or Range d stands for (d, FullRange).     *)
(***************************************************************************)
Element(m, i, j) ==
    Matrix_DATA(m)[linearize_scalar_indices(m.N, m.M, m.transposed, i, j) + 1]

KeyPair(key) == IF PyTuple_Check(key) THEN key ELSE PyTuple(<<key, FullSlice>>)
KeyRows(m, key) == ResolvedValues(PyTuple_GetItem(KeyPair(key), 0), LogicalRows(m))
KeyCols(m, key) == ResolvedValues(PyTuple_GetItem(KeyPair(key), 1), LogicalCols(m))

ValidKey(m, key) ==
    /\ key # PyNULL
    /\ IsSelectorPair(KeyPair(key))
    /\ ValidSelector(PyTuple_GetItem(KeyPair(key), 0), LogicalRows(m))
    /\ ValidSelector(PyTuple_GetItem(KeyPair(key), 1), LogicalCols(m))

\* The logical positions (i_a, j_b) a key selects, at a * q + b.
SelectedPositions(m, key) ==
    [r \in 1 .. Len(KeyRows(m, key)) * Len(KeyCols(m, key)) |->
        <<KeyRows(m, key)[((r - 1) \div Len(KeyCols(m, key))) + 1],
          KeyCols(m, key)[((r - 1) % Len(KeyCols(m, key))) + 1]>>]

Selected(m, key) ==
    [r \in 1 .. Len(SelectedPositions(m, key)) |->
        Element(m, SelectedPositions(m, key)[r][1], SelectedPositions(m, key)[r][2])]

\* The Matrix an operation has just returned.
Returned == matrices[result.val[1]]

\* A Matrix with a buffer of its own: no other Matrix holds its container.
OwnsBuffer(id) ==
    /\ matrices[id].view_of = 0
    /\ \A other \in MatrixIds \ {id} : matrices[other].container # matrices[id].container

(***************************************************************************)
(* C11: Get returns a bare scalar exactly when the key resolves to one     *)
(* element; when it resolves to more than one, a new untransposed Matrix   *)
(* of the resolved sub-shape that holds the selected elements in           *)
(* linearized order; and fails with ValueError when it resolves to none.   *)
(***************************************************************************)
C11_Get ==
    (/\ pc = "follow"
     /\ result.op = "GetItem"
     /\ ValidKey(matrices[1], args.key)) =>
        /\ Len(Selected(matrices[1], args.key)) = 0 => result.err = "ValueError"
        /\ Len(Selected(matrices[1], args.key)) = 1 =>
               /\ result.err = ""
               /\ result.kind = "float"
               /\ result.val = Selected(matrices[1], args.key)
        /\ Len(Selected(matrices[1], args.key)) > 1 =>
               /\ result.err = ""
               /\ result.kind = "matrix"
               /\ OwnsBuffer(result.val[1])
               /\ ~Matrix_TRANSPOSED(Returned)
               /\ Matrix_N(Returned) = Len(KeyRows(matrices[1], args.key))
               /\ Matrix_M(Returned) = Len(KeyCols(matrices[1], args.key))
               /\ Ok(<<Matrix_N(Returned), Matrix_M(Returned)>>)
                     = get_sub_shape(matrices[1].N, matrices[1].M, matrices[1].transposed,
                                     KeyPair(args.key))
               /\ Matrix_DATA(Returned) = Selected(matrices[1], args.key)

\* The rows (1, 0) and the reversed columns of a transposed 1 x 2 Matrix.
C11_Witness ==
    /\ pc = "follow"
    /\ result.op = "GetItem"
    /\ result.kind = "matrix"
    /\ Matrix_TRANSPOSED(matrices[1])
    /\ Matrix_N(matrices[1]) = 1
    /\ Matrix_M(matrices[1]) = 2
    /\ args.key = PyTuple(<<PyTuple(<<PyLong(1), PyLong(0)>>), PySlice_New(<<>>, <<>>, <<-1>>)>>)
    /\ Matrix_N(Returned) = 2
    /\ Matrix_M(Returned) = 1
    /\ Matrix_DATA(Returned) = <<0, -1>>

(***************************************************************************)
(* C12: round trip of construction.  For rows, cols >= 1 and flat data of  *)
(* length rows*cols, Construct((rows, cols), data) (untransposed, the      *)
(* default) followed by Get((FullRange, FullRange)) yields shape           *)
(* (rows, cols) with the row-major elements equal to data, and the scalar  *)
(* data[0] when rows*cols = 1.                                             *)
(***************************************************************************)
DataValues(data) == [k \in 1 .. PyTuple_Size(data) |-> data.elems[k].val]

C12_RoundTrip ==
    (/\ pc = "follow"
     /\ result.op = "GetItem"
     /\ args.key = PyTuple(<<FullSlice, FullSlice>>)
     /\ ~Matrix_TRANSPOSED(matrices[1])) =>
        \A data \in OpData(1, Matrix_N(matrices[1]) * Matrix_M(matrices[1])) :
            /\ result.err = ""
            /\ PyTuple_Size(data) = 1 =>
                   result.kind = "float" /\ result.val = <<data.elems[1].val>>
            /\ PyTuple_Size(data) > 1 =>
                   /\ result.kind = "matrix"
                   /\ Matrix_SHAPE_I(Returned) = Matrix_N(matrices[1])
                   /\ Matrix_SHAPE_J(Returned) = Matrix_M(matrices[1])
                   /\ \A i \in 0 .. Matrix_N(matrices[1]) - 1 :
                          \A j \in 0 .. Matrix_M(matrices[1]) - 1 :
                              Element(Returned, i, j)
                                  = DataValues(data)[i * Matrix_M(matrices[1]) + j + 1]

\* Matrix((2, 1), (-1, 0))[:, :] is a 2 x 1 Matrix of -1, 0.
C12_Witness ==
    /\ pc = "follow"
    /\ result.op = "GetItem"
    /\ args.key = PyTuple(<<FullSlice, FullSlice>>)
    /\ ~Matrix_TRANSPOSED(matrices[1])
    /\ Matrix_N(matrices[1]) = 2
    /\ Matrix_M(matrices[1]) = 1
    /\ result.kind = "matrix"
    /\ Matrix_SHAPE_I(Returned) = 2
    /\ Matrix_SHAPE_J(Returned) = 1
    /\ Matrix_DATA(Returned) = <<-1, 0>>

(***************************************************************************)
(* C13, as claimed: for a Matrix m of either flag, a key of Scalar, List   *)
(* or Range selectors that resolves to at least one element, and a value   *)
(* of matching size (a scalar, broadcast, or a flat sequence),             *)
(* m.Set(key, v) followed by m.Get(key) returns the written values in the  *)
(* written order.                                                          *)
(***************************************************************************)
IsFlatSequence(v) ==
    PyTuple_Check(v) /\ \A k \in 1 .. PyTuple_Size(v) : IsNumber(v.elems[k])

\* The values m.Set(key, v) writes, one for each selected position in order.
Written(m, key, v) ==
    IF IsNumber(v)
    THEN [r \in 1 .. Len(SelectedPositions(m, key)) |-> v.val]
    ELSE DataValues(v)

\* What a Get has returned: the float, or the data of the new Matrix.
Got == IF result.kind = "matrix" THEN Matrix_DATA(Returned) ELSE result.val

SetThenGet ==
    /\ pc = "end"
    /\ result.op = "GetItem"
    /\ ValidKey(matrices[1], args.key)
    /\ Len(SelectedPositions(matrices[1], args.key)) >= 1
    /\ \/ IsNumber(args.value)
       \/ /\ IsFlatSequence(args.value)
          /\ PyTuple_Size(args.value) = Len(SelectedPositions(matrices[1], args.key))

C13_Original ==
    SetThenGet =>
        /\ result.err = ""
        /\ Got = Written(matrices[1], args.key, args.value)

(***************************************************************************)
(* C13, amended: m.Set(key, v) followed by m.Get(key) returns the written  *)
(* values in the written order when the key selects no element twice.  A   *)
(* List that repeats an index selects an element more than once: each      *)
(* selected position then reads the value written last to its element.     *)
(***************************************************************************)
SelectsOnce(m, key) ==
    \A r \in 1 .. Len(SelectedPositions(m, key)) :
        \A t \in 1 .. Len(SelectedPositions(m, key)) :
            SelectedPositions(m, key)[r] = SelectedPositions(m, key)[t] => r = t

\* The last position in the order of writing that selects the element of r.
LastWrite(m, key, r) ==
    CHOOSE t \in 1 .. Len(SelectedPositions(m, key)) :
        /\ SelectedPositions(m, key)[t] = SelectedPositions(m, key)[r]
        /\ \A u \in 1 .. Len(SelectedPositions(m, key)) :
               SelectedPositions(m, key)[u] = SelectedPositions(m, key)[r] => u <= t

C13_Amended ==
    SetThenGet =>
        /\ result.err = ""
        /\ SelectsOnce(matrices[1], args.key) =>
               Got = Written(matrices[1], args.key, args.value)
        /\ Got = [r \in 1 .. Len(SelectedPositions(matrices[1], args.key)) |->
                     Written(matrices[1], args.key, args.value)
                         [LastWrite(matrices[1], args.key, r)]]

\* m[(1, 0), ::-1] = (5, 6, 7, 8) on a transposed 2 x 2 Matrix, read back.
C13_Witness ==
    /\ SetThenGet
    /\ Matrix_TRANSPOSED(matrices[1])
    /\ Matrix_N(matrices[1]) = 2
    /\ Matrix_M(matrices[1]) = 2
    /\ args.key = PyTuple(<<PyTuple(<<PyLong(1), PyLong(0)>>), PySlice_New(<<>>, <<>>, <<-1>>)>>)
    /\ args.value = PyTuple(<<Fresh(1), Fresh(2), Fresh(3), Fresh(4)>>)
    /\ Got = <<Fresh(1).val, Fresh(2).val, Fresh(3).val, Fresh(4).val>>
    /\ Matrix_DATA(matrices[1]) = <<Fresh(4).val, Fresh(2).val, Fresh(3).val, Fresh(1).val>>

(***************************************************************************)
(* C14, as claimed: Set is atomic on error.  Whenever Set fails (index     *)
(* error, value length or shape mismatch, non-numeric element of a value   *)
(* sequence, unsupported value type) the destination buffer, and so every  *)
(* view sharing it, is exactly as before the call.                         *)
(***************************************************************************)
SetFails ==
    /\ pc = "operate"
    /\ pc' = "follow"
    /\ result'.op = "SetItem"
    /\ result'.err # ""

C14_Claim == [][SetFails => containers' = containers]_vars

\* A 1 x 2 Matrix of -1, 0 after the failed m[0, :] = (5, "x").
C14_Witness ==
    /\ pc = "follow"
    /\ result.op = "SetItem"
    /\ result.err = "TypeError"
    /\ args.key = PyTuple(<<PyLong(0), FullSlice>>)
    /\ args.value = PyTuple(<<Fresh(1), PyOther>>)
    /\ Matrix_N(matrices[1]) = 1
    /\ Matrix_M(matrices[1]) = 2
    /\ ~Matrix_TRANSPOSED(matrices[1])
    /\ Matrix_DATA(matrices[1]) = <<Fresh(1).val, 0>>

(***************************************************************************)
(* C15, as claimed: for a destination d and a Matrix value V with a buffer *)
(* of its own whose logical shape equals the sub-shape the key resolves    *)
(* to, d.Set(key, V) makes the element of d at the (a, b)-th selected      *)
(* position equal to V's logical element (a, b), for every combination of  *)
(* the two flags and every kind of selector; a logical-shape mismatch      *)
(* fails with ValueError.                                                  *)
(***************************************************************************)
\* The logical elements of a Matrix, in i-major order.
LogicalElements(m) ==
    [r \in 1 .. LogicalRows(m) * LogicalCols(m) |->
        Element(m, (r - 1) \div LogicalCols(m), (r - 1) % LogicalCols(m))]

\* A[key] = B has been executed, with a key that passes index validation.
SetFromValue ==
    /\ pc = "follow"
    /\ result.op = "SetItem"
    /\ args.value = PyMatrix(2)
    /\ matrices[2].container # matrices[1].container
    /\ ValidKey(matrices[1], args.key)

SameShape(m, key, v) ==
    /\ LogicalRows(v) = Len(KeyRows(m, key))
    /\ LogicalCols(v) = Len(KeyCols(m, key))

C15_Original ==
    SetFromValue =>
        IF SameShape(matrices[1], args.key, matrices[2])
        THEN /\ result.err = ""
             /\ Selected(matrices[1], args.key) = LogicalElements(matrices[2])
        ELSE result.err = "ValueError"

(***************************************************************************)
(* C15, amended: the element of d at the (a, b)-th selected position       *)
(* equals V's logical element (a, b) when the key selects no element       *)
(* twice.  When a List repeats an index, each selected position holds the  *)
(* element of V written last to it.  A logical-shape mismatch fails with   *)
(* ValueError.                                                             *)
(***************************************************************************)
C15_Amended ==
    SetFromValue =>
        IF SameShape(matrices[1], args.key, matrices[2])
        THEN /\ result.err = ""
             /\ SelectsOnce(matrices[1], args.key) =>
                    Selected(matrices[1], args.key) = LogicalElements(matrices[2])
             /\ Selected(matrices[1], args.key)
                    = [r \in 1 .. Len(SelectedPositions(matrices[1], args.key)) |->
                          LogicalElements(matrices[2])[LastWrite(matrices[1], args.key, r)]]
        ELSE result.err = "ValueError"

\* A[(1, 0), ::-1] = B with A 2 x 2 and B a transposed 2 x 2 of 1, 2, 3, 4.
C15_Witness ==
    /\ SetFromValue
    /\ result.err = ""
    /\ ~Matrix_TRANSPOSED(matrices[1])
    /\ Matrix_TRANSPOSED(matrices[2])
    /\ Matrix_N(matrices[2]) = 2
    /\ Matrix_M(matrices[2]) = 2
    /\ Matrix_DATA(matrices[2]) = <<1, 2, 3, 4>>
    /\ args.key = PyTuple(<<PyTuple(<<PyLong(1), PyLong(0)>>), PySlice_New(<<>>, <<>>, <<-1>>)>>)
    /\ LogicalElements(matrices[2]) = <<1, 3, 2, 4>>
    /\ Matrix_DATA(matrices[1]) = <<4, 2, 3, 1>>

(***************************************************************************)
(* C16: only .t creates aliasing.  A Matrix returned by Get, by unary -,   *)
(* + or abs, by an elementwise or scalar-broadcast operator or by matrix   *)
(* multiplication owns a fresh buffer: a later Set through the result      *)
(* changes no operand, and a later Set through an operand or through one   *)
(* of its views does not change the result.  The Matrix returned by .t     *)
(* holds the buffer of the Matrix it was taken from.                       *)
(***************************************************************************)
FreshOps == {"GetItem", "neg", "pos", "abs", "add", "sub", "mul", "div", "matmul"}

\* An operation has just returned a new Matrix to the caller.
ReturnedFresh ==
    /\ pc = "follow"
    /\ result.kind = "matrix"
    /\ result.op \in FreshOps

\* The caller's next step is a Set through one of the matrices it holds.
LaterSet ==
    /\ pc = "follow"
    /\ pc' = "end"
    /\ result'.op = "SetItem"

\* The buffers a Set through Matrix self leaves as they are.
Untouched(self) ==
    {c \in 1 .. Len(containers) :
        c # matrices[self].container /\ containers'[c] = containers[c]}

C16_Aliasing ==
    [][/\ ReturnedFresh => OwnsBuffer(result.val[1])
       /\ (pc = "follow" /\ result.op = "GetTransposed") =>
              Returned.container = matrices[result.self].container
       /\ (ReturnedFresh /\ LaterSet) =>
              /\ result'.self = result.val[1] =>
                     \A id \in MatrixIds \ {result.val[1]} :
                         matrices[id].container \in Untouched(result'.self)
              /\ result'.self # result.val[1] =>
                     Returned.container \in Untouched(result'.self)]_vars

\* (-A) taken while A.t is held, and then A.t[:, :] = a fresh number.
C16_Witness ==
    /\ pc = "end"
    /\ result.op = "SetItem"
    /\ result.self = 3
    /\ Len(matrices) = 4
    /\ matrices[3].view_of = 1
    /\ OwnsBuffer(4)
    /\ Matrix_N(matrices[1]) = 1
    /\ Matrix_M(matrices[1]) = 2
    /\ Matrix_DATA(matrices[1]) = <<Fresh(0).val, Fresh(0).val>>
    /\ Matrix_DATA(matrices[4]) = <<1, 0>>

(***************************************************************************)
(* C17: for +, -, * and / on two matrices A and B of equal logical shapes  *)
(* the result R has the logical shape of A and                             *)
(* R(i, j) = A(i, j) op B(i, j) at every logical position, for all four    *)
(* combinations of the flags of A and B (for / where no paired divisor is  *)
(* zero); unequal logical shapes fail with ValueError.                     *)
(***************************************************************************)
ElementwiseOps == {"add", "sub", "mul", "div"}

\* A op B has been evaluated for two matrices A and B.
First == matrices[args.first.val]
Second == matrices[args.second.val]

Elementwise ==
    /\ pc = "follow"
    /\ result.op \in ElementwiseOps
    /\ Matrix_Check(args.first)
    /\ Matrix_Check(args.second)

EqualShapes(a, b) ==
    /\ LogicalRows(a) = LogicalRows(b)
    /\ LogicalCols(a) = LogicalCols(b)

\* Some element of b is zero, at any logical position.
HasZero(b) ==
    \E i \in 0 .. LogicalRows(b) - 1, j \in 0 .. LogicalCols(b) - 1 : Element(b, i, j) = 0

C17_Elementwise ==
    Elementwise =>
        IF ~EqualShapes(First, Second)
        THEN result.err = "ValueError"
        ELSE (result.op = "div" /\ HasZero(Second))
             \/ /\ result.err = ""
                /\ result.kind = "matrix"
                /\ EqualShapes(Returned, First)
                /\ \A i \in 0 .. LogicalRows(First) - 1, j \in 0 .. LogicalCols(First) - 1 :
                       Element(Returned, i, j)
                           = FloatOp(result.op, Element(First, i, j), Element(Second, i, j))

\* A / B for an untransposed A of -1, 0, 1, 2 and a transposed B of 1, 2, 3, 4.
C17_Witness ==
    /\ Elementwise
    /\ result.op = "div"
    /\ args.first = PyMatrix(1)
    /\ args.second = PyMatrix(2)
    /\ ~Matrix_TRANSPOSED(First)
    /\ Matrix_TRANSPOSED(Second)
    /\ Matrix_DATA(First) = <<-1, 0, 1, 2>>
    /\ Matrix_DATA(Second) = <<1, 2, 3, 4>>
    /\ Matrix_N(First) = 2
    /\ Matrix_N(Second) = 2
    /\ Matrix_DATA(Returned) = <<<<-1, 1>>, <<0, 1>>, <<1, 2>>, <<1, 2>>>>

(***************************************************************************)
(* C18: Matrix / Matrix and Matrix / scalar fail with ZeroDivisionError    *)
(* whenever a paired divisor element, or the scalar divisor, is exactly    *)
(* zero; no result is then produced and the buffers of both operands are   *)
(* unchanged.                                                              *)
(***************************************************************************)
\* The step that evaluates first / second for a Matrix first.
MatrixDivided ==
    /\ pc = "operate"
    /\ pc' = "follow"
    /\ result'.op = "div"
    /\ Matrix_Check(args'.first)

\* The divisor of that step is a zero number, or a Matrix of the logical
\* shape of the dividend that holds a zero.
ZeroDivisor ==
    \/ /\ IsNumber(args'.second)
       /\ args'.second.val = 0
    \/ /\ Matrix_Check(args'.second)
       /\ EqualShapes(matrices[args'.first.val], matrices[args'.second.val])
       /\ HasZero(matrices[args'.second.val])

C18_DivisionByZero ==
    [][(MatrixDivided /\ ZeroDivisor) =>
           /\ result'.err = "ZeroDivisionError"
           /\ result'.kind = ""
           /\ result'.val = <<>>
           /\ matrices' = matrices
           /\ containers' = containers]_vars

\* A / B.t failed for a 2 x 1 A of -1, 0 and a 1 x 2 B of -1, 0.
C18_Witness ==
    /\ pc = "follow"
    /\ result.op = "div"
    /\ result.err = "ZeroDivisionError"
    /\ args.first = PyMatrix(1)
    /\ args.second = PyMatrix(3)
    /\ Len(matrices) = 3
    /\ matrices[3].view_of = 2
    /\ Matrix_N(matrices[1]) = 2
    /\ Matrix_M(matrices[1]) = 1
    /\ Matrix_N(matrices[2]) = 1
    /\ Matrix_M(matrices[2]) = 2
    /\ Matrix_DATA(matrices[1]) = <<-1, 0>>
    /\ Matrix_DATA(matrices[2]) = <<-1, 0>>

(***************************************************************************)
(* C19, as claimed: scalar / Matrix (numerator s, divisor M) fails with    *)
(* ZeroDivisionError exactly when some element of M is exactly zero; when  *)
(* no element of M is zero it returns the Matrix of s / M(i, j), for every *)
(* s, s = 0 included.                                                      *)
(***************************************************************************)
\* s / M has been evaluated for a number s and a Matrix M.
ScalarDivided ==
    /\ pc = "follow"
    /\ result.op = "div"
    /\ IsNumber(args.first)
    /\ Matrix_Check(args.second)

C19_Claim ==
    ScalarDivided =>
        /\ result.err = "ZeroDivisionError" <=> HasZero(Second)
        /\ ~HasZero(Second) =>
               /\ result.err = ""
               /\ result.kind = "matrix"
               /\ EqualShapes(Returned, Second)
               /\ \A i \in 0 .. LogicalRows(Second) - 1, j \in 0 .. LogicalCols(Second) - 1 :
                      Element(Returned, i, j) = FloatDiv(args.first.val, Element(Second, i, j))

\* 2 / A for a 1 x 2 A of -1, 0 has returned a Matrix of -2 and infinity.
C19_Witness ==
    /\ ScalarDivided
    /\ args.first = PyLong(2)
    /\ args.second = PyMatrix(1)
    /\ Matrix_N(Second) = 1
    /\ Matrix_M(Second) = 2
    /\ Matrix_DATA(Second) = <<-1, 0>>
    /\ result.err = ""
    /\ result.kind = "matrix"
    /\ Matrix_DATA(Returned) = <<<<-2, 1>>, <<1, 0>>>>

(***************************************************************************)
(* C20: A @ B fails with ValueError unless the logical column count of A   *)
(* equals the logical row count of B.  Otherwise, for logical shapes       *)
(* (M, K) and (K, N), the result is an untransposed M x N Matrix with      *)
(* R(i, j) = sum over k of A(i, k) * B(k, j) on logical elements, for      *)
(* every combination of the flags of A and B; when M = 1 and N = 1 the     *)
(* result is the bare scalar dot product.                                  *)
(***************************************************************************)
\* A(i, 0) * B(0, j) + ... + A(i, K - 1) * B(K - 1, j)
RECURSIVE SumOfProducts(_, _, _, _, _)
SumOfProducts(a, b, i, j, K) ==
    IF K = 0 THEN 0
    ELSE SumOfProducts(a, b, i, j, K - 1) + Element(a, i, K - 1) * Element(b, K - 1, j)

\* A @ B has been evaluated for two matrices A and B.
MatMultiplied ==
    /\ pc = "follow"
    /\ result.op = "matmul"
    /\ Matrix_Check(args.first)
    /\ Matrix_Check(args.second)

C20_MatMul ==
    MatMultiplied =>
        IF LogicalCols(First) # LogicalRows(Second)
        THEN result.err = "ValueError"
        ELSE /\ result.err = ""
             /\ IF LogicalRows(First) = 1 /\ LogicalCols(Second) = 1
                THEN /\ result.kind = "float"
                     /\ result.val = <<SumOfProducts(First, Second, 0, 0, LogicalCols(First))>>
                ELSE /\ result.kind = "matrix"
                     /\ ~Matrix_TRANSPOSED(Returned)
                     /\ Matrix_N(Returned) = LogicalRows(First)
                     /\ Matrix_M(Returned) = LogicalCols(Second)
                     /\ \A i \in 0 .. LogicalRows(First) - 1,
                           j \in 0 .. LogicalCols(Second) - 1 :
                            Element(Returned, i, j)
                                = SumOfProducts(First, Second, i, j, LogicalCols(First))

\* A @ B for an untransposed A of -1, 0, 1, 2 and a transposed B of 1, 2, 3, 4.
C20_Witness ==
    /\ MatMultiplied
    /\ args.first = PyMatrix(1)
    /\ args.second = PyMatrix(2)
    /\ ~Matrix_TRANSPOSED(First)
    /\ Matrix_TRANSPOSED(Second)
    /\ Matrix_N(First) = 2
    /\ Matrix_N(Second) = 2
    /\ Matrix_DATA(First) = <<-1, 0, 1, 2>>
    /\ Matrix_DATA(Second) = <<1, 2, 3, 4>>
    /\ Matrix_DATA(Returned) = <<-1, -3, 5, 11>>

(***************************************************************************)
(* Matrix_RichCompare: <, <=, ==, !=, >=, > between two matrices pair the  *)
(* elements through select_all of each operand and stop at the first pair  *)
(* that decides; between a Matrix and a number they walk the raw data.     *)
(***************************************************************************)
CompareOps == {"LT", "LE", "EQ", "NE", "GE", "GT"}

CompareOp(op, a, b) ==
    CASE op = "LT" -> a < b
      [] op = "LE" -> a <= b
      [] op = "EQ" -> a = b
      [] op = "NE" -> a # b
      [] op = "GE" -> a >= b
      [] op = "GT" -> a > b

OpBool(b) ==
    [err |-> "", kind |-> "bool", N |-> 0, M |-> 0, transposed |-> FALSE, data |-> <<b>>]

\* comp starts at 1 and drops to 0 at the first failing pair; for != it
\* starts at 0 and rises to 1 at the first differing pair.
RECURSIVE CompareLoop_sameoffset(_, _, _, _, _, _)
CompareLoop_sameoffset(op, fdata, sdata, flinidx, slinidx, i) ==
    IF i >= Len(flinidx)
    THEN op # "NE"
    ELSE IF (op = "NE") = CompareOp(op, fdata[flinidx[i + 1] + 1], sdata[flinidx[i + 1] + 1])
    THEN op = "NE"
    ELSE CompareLoop_sameoffset(op, fdata, sdata, flinidx, slinidx, i + 1)

RECURSIVE CompareLoop(_, _, _, _, _, _)
CompareLoop(op, fdata, sdata, flinidx, slinidx, i) ==
    IF i >= Len(flinidx)
    THEN op # "NE"
    ELSE IF (op = "NE") = CompareOp(op, fdata[flinidx[i + 1] + 1], sdata[slinidx[i + 1] + 1])
    THEN op = "NE"
    ELSE CompareLoop(op, fdata, sdata, flinidx, slinidx, i + 1)

CompareSelected(op, fm, sm, flinidx, slinidx) ==
    IF flinidx.err # "" THEN OpRaise(flinidx.err)
    ELSE IF slinidx.err # "" THEN OpRaise(slinidx.err)
    ELSE OpBool(CompareLoop(op, Matrix_DATA(fm), Matrix_DATA(sm), flinidx.val, slinidx.val, 0))

CompareMatrices(op, fm, sm) ==
    IF Matrix_SHAPE_I(fm) = Matrix_SHAPE_I(sm) /\ Matrix_SHAPE_J(fm) = Matrix_SHAPE_J(sm)
    THEN CompareSelected(op, fm, sm,
                         select_all(fm.N, fm.M, fm.transposed),
                         select_all(sm.N, sm.M, sm.transposed))
    ELSE IF op = "EQ" THEN OpBool(FALSE)
    ELSE IF op = "NE" THEN OpBool(TRUE)
    ELSE OpRaise("ValueError")

\* Matrix op number and number op Matrix, over the raw data.
CompareScalar(op, data, value, matrix_first) ==
    OpBool(IF op = "NE"
           THEN \E i \in 1 .. Len(data) : data[i] # value
           ELSE \A i \in 1 .. Len(data) :
                    IF matrix_first THEN CompareOp(op, data[i], value)
                    ELSE CompareOp(op, value, data[i]))

CompareOutcome(op, first, second) ==
    IF Matrix_Check(first) /\ Matrix_Check(second)
    THEN CompareMatrices(op, matrices[first.val], matrices[second.val])
    ELSE IF Matrix_Check(first) /\ IsNumber(second)
    THEN CompareScalar(op, Matrix_DATA(matrices[first.val]), second.val, TRUE)
    ELSE IF IsNumber(first) /\ Matrix_Check(second)
    THEN CompareScalar(op, Matrix_DATA(matrices[second.val]), first.val, FALSE)
    ELSE OpNotImplemented

Matrix_RichCompare(first, second, op) ==
    Matrix_Return(op, 0, CompareOutcome(op, first, second))

(***************************************************************************)
(* A caller that constructs A and B, may take the view x.t of one of them, *)
(* and compares two of its operands.                                       *)
(***************************************************************************)
Cmp_RichCompare ==
    /\ pc = "operate"
    /\ \E p \in OperandPairs, op \in CompareOps :
           /\ Matrix_RichCompare(p[1], p[2], op)
           /\ args' = [NoArgs EXCEPT !.first = p[1], !.second = p[2]]
    /\ pc' = "end"
    /\ UNCHANGED <<ret, iterators>>

CmpNext ==
    \/ Ops_Construct
    \/ Ops_View
    \/ Cmp_RichCompare

SpecCmp == OpsInit /\ [][CmpNext]_vars

(***************************************************************************)
(* C21: comparing two matrices of different logical shapes returns false   *)
(* for == and true for != without raising, while <, <=, >= and > fail with *)
(* ValueError; for equal logical shapes every comparison returns one       *)
(* boolean, the AND over all logically paired elements (the OR for !=),    *)
(* whatever the flags of the operands.                                     *)
(***************************************************************************)
Compared ==
    /\ pc = "end"
    /\ result.op \in CompareOps
    /\ Matrix_Check(args.first)
    /\ Matrix_Check(args.second)

\* The AND over the logical pairs, or the OR for !=.
OverPairs(op, a, b) ==
    IF op = "NE"
    THEN \E i \in 0 .. LogicalRows(a) - 1, j \in 0 .. LogicalCols(a) - 1 :
             Element(a, i, j) # Element(b, i, j)
    ELSE \A i \in 0 .. LogicalRows(a) - 1, j \in 0 .. LogicalCols(a) - 1 :
             CompareOp(op, Element(a, i, j), Element(b, i, j))

C21_Compare ==
    Compared =>
        IF EqualShapes(First, Second)
        THEN /\ result.err = ""
             /\ result.kind = "bool"
             /\ result.val = <<OverPairs(result.op, First, Second)>>
        ELSE IF result.op \in {"EQ", "NE"}
        THEN /\ result.err = ""
             /\ result.kind = "bool"
             /\ result.val = <<result.op = "NE">>
        ELSE result.err = "ValueError"

\* A <= B.t holds for a 2 x 2 A of -1, 0, 1, 2 and a 2 x 2 B of -1, 0, 1, 2:
\* B.t is -1, 1, 0, 2 in logical order, so the raw data alone would say TRUE.
C21_Witness ==
    /\ Compared
    /\ result.op = "LE"
    /\ args.first = PyMatrix(1)
    /\ args.second = PyMatrix(3)
    /\ matrices[3].view_of = 2
    /\ ~Matrix_TRANSPOSED(First)
    /\ Matrix_TRANSPOSED(Second)
    /\ Matrix_DATA(First) = <<-1, 0, 1, 2>>
    /\ Matrix_DATA(Second) = <<-1, 0, 1, 2>>
    /\ Matrix_N(First) = 2
    /\ Matrix_N(Second) = 2
    /\ result.val = <<FALSE>>

(***************************************************************************)
(* A caller that constructs one Matrix and keeps the arguments it passed:  *)
(* the shape in args.key, the data in args.value.                          *)
(***************************************************************************)
New_Call ==
    /\ pc = "construct"
    /\ \E N \in NewShapes, M \in NewShapes, data \in NewData, transposed \in BOOLEAN :
           /\ Matrix_New(N, M, data, transposed)
           /\ args' = [NoArgs EXCEPT !.key = PyTuple(<<PyLong(N), PyLong(M)>>),
                                     !.value = data]
    /\ pc' = "end"
    /\ UNCHANGED <<ret, iterators>>

NewNext ==
    \/ New_Call

SpecNew == OpsInit /\ [][NewNext]_vars

(***************************************************************************)
(* C22, as claimed: Construct fails with ValueError and creates no Matrix  *)
(* whenever rows < 1 or cols < 1 (zero or negative, in either dimension or *)
(* in both), and whenever the fill value is a flat sequence whose length   *)
(* differs from rows * cols.                                               *)
(***************************************************************************)
Constructed ==
    /\ pc = "end"
    /\ result.op = "New"

ShapeRows == PyTuple_GetItem(args.key, 0).val
ShapeCols == PyTuple_GetItem(args.key, 1).val

C22_Claim ==
    (/\ Constructed
     /\ \/ ShapeRows < 1
        \/ ShapeCols < 1
        \/ /\ PySequence_Check(args.value)
           /\ PyTuple_Size(args.value) # ShapeRows * ShapeCols) =>
        /\ result.err = "ValueError"
        /\ matrices = <<>>
        /\ containers = <<>>

\* Matrix((-1, -1)) has returned a Matrix of shape (-1, -1) over one element.
C22_Witness ==
    /\ Constructed
    /\ ShapeRows = -1
    /\ ShapeCols = -1
    /\ args.value = PyNULL
    /\ result.err = ""
    /\ Len(matrices) = 1
    /\ Matrix_N(matrices[1]) = -1
    /\ Matrix_M(matrices[1]) = -1
    /\ Matrix_DATA(matrices[1]) = <<0>>

(***************************************************************************)
(* C23, as claimed: in every reachable state every live Matrix, whether    *)
(* constructed directly or returned by Get, .t, a unary or binary operator *)
(* or matrix multiplication, has a buffer of length rows * cols with       *)
(* rows >= 1 and cols >= 1, and no operation ever changes the length of an *)
(* existing buffer.                                                        *)
(***************************************************************************)
BufferShaped(m) ==
    /\ Matrix_SIZE(m) = Matrix_N(m) * Matrix_M(m)
    /\ Matrix_N(m) >= 1
    /\ Matrix_M(m) >= 1

C23_Claim ==
    [][/\ \A id \in MatrixIds : BufferShaped(matrices[id])
       /\ \A c \in 1 .. Len(containers) :
              /\ c <= Len(containers')
              /\ Len(containers'[c].data) = Len(containers[c].data)]_vars

\* Matrix((-1, -1)) and its view .t, both of shape (-1, -1) over one element.
C23_Witness ==
    /\ Len(matrices) >= 2
    /\ matrices[2].view_of = 1
    /\ Matrix_N(matrices[2]) = -1
    /\ Matrix_M(matrices[2]) = -1
    /\ Matrix_SIZE(matrices[2]) = 1

(***************************************************************************)
(* Reference counts.  Py_DECREF of a Matrix that held the last reference   *)
(* runs Matrix_Dealloc, which releases the container; a container whose    *)
(* count reaches 0 is destroyed by MatrixContainer_Dealloc.  A destroyed   *)
(* object keeps its place in matrices or containers with a count of 0.     *)
(***************************************************************************)
Matrix_Dealloc(cs, self) ==
    [cs EXCEPT ![matrices[self].container].refcnt = @ - 1]

Matrix_DECREF_leaking(self) ==
    /\ matrices' = [matrices EXCEPT ![self].ob_refcnt = @ - 1]
    /\ containers' = containers

Matrix_DECREF(self) ==
    /\ matrices' = [matrices EXCEPT ![self].ob_refcnt = @ - 1]
    /\ containers' = IF matrices[self].ob_refcnt = 1
                     THEN Matrix_Dealloc(containers, self)
                     ELSE containers

(***************************************************************************)
(* Matrix_GetIter and the MatrixIterator type: the iterator holds a        *)
(* reference to its Matrix, a cursor idx and its end idx_max, and walks    *)
(* the rows, or the columns of a Matrix of one logical row.                *)
(***************************************************************************)
MatrixIterator_NewInternal(matrix, idx, idx_max, iter_columns) ==
    /\ matrices' = [matrices EXCEPT ![matrix].ob_refcnt = @ + 1]
    /\ iterators' = Append(iterators,
           [matrix |-> matrix, idx |-> idx, idx_max |-> idx_max,
            iter_columns |-> iter_columns, ob_refcnt |-> 1])
    /\ result' = Outcome("GetIter", matrix, "", "iterator", <<Len(iterators) + 1>>)
    /\ UNCHANGED containers

Matrix_GetIter(self) ==
    IF Matrix_SHAPE_I(matrices[self]) > 1
    THEN MatrixIterator_NewInternal(self, 0, Matrix_SHAPE_I(matrices[self]), FALSE)
    ELSE MatrixIterator_NewInternal(self, 0, Matrix_SHAPE_J(matrices[self]), TRUE)

\* The key MatrixIterator_Next builds for its cursor.
NextKey(it) ==
    IF ~iterators[it].iter_columns
    THEN PyLong(iterators[it].idx)
    ELSE PyTuple(<<FullSlice, PyLong(iterators[it].idx)>>)

MatrixIterator_Next_rewinding(it) ==
    IF 0 <= iterators[it].idx /\ iterators[it].idx < iterators[it].idx_max
    THEN /\ iterators' = [iterators EXCEPT ![it].idx = @ + 1]
         /\ Matrix_GetItem(iterators[it].matrix, NextKey(it))
    ELSE /\ result' = Outcome("Next", it, "StopIteration", "", <<>>)
         /\ iterators' = [iterators EXCEPT ![it].idx = 0]
         /\ UNCHANGED <<containers, matrices>>

MatrixIterator_Next(it) ==
    IF 0 <= iterators[it].idx /\ iterators[it].idx < iterators[it].idx_max
    THEN /\ iterators' = [iterators EXCEPT ![it].idx = @ + 1]
         /\ Matrix_GetItem(iterators[it].matrix, NextKey(it))
    ELSE /\ result' = Outcome("Next", it, "StopIteration", "", <<>>)
         /\ UNCHANGED <<containers, matrices, iterators>>

MatrixIterator_Dealloc(it) ==
    /\ iterators' = [iterators EXCEPT ![it].ob_refcnt = 0]
    /\ Matrix_DECREF(iterators[it].matrix)

(***************************************************************************)
(* A caller that constructs a Matrix A, may take A.t, creates iterators    *)
(* over them, calls Next, writes through A or A.t between the calls, and   *)
(* drops A, A.t and the iterators.  args.held and args.its are the         *)
(* matrices and the iterators the caller holds, args.items the items it    *)
(* has received, each with the iterator that yielded it, args.sets the     *)
(* number of its writes.                                                   *)
(***************************************************************************)
MaxIterators == 2
MaxSets == 1

IterInit ==
    /\ containers = <<>>
    /\ matrices = <<>>
    /\ iterators = <<>>
    /\ result = NoResult
    /\ args = [held |-> {}, its |-> {}, items |-> <<>>, sets |-> 0]
    /\ pc = "iterate"
    /\ ret = Ok(<<>>)

\* A and its view: the matrices on the first container.
OnBuffer == {id \in args.held : matrices[id].container = 1}

Iter_Construct ==
    /\ Len(matrices) = 0
    /\ \E N \in OpShapes, M \in OpShapes, transposed \in BOOLEAN :
           Matrix_New(N, M, Ramp(N * M, -1), transposed)
    /\ args' = [args EXCEPT !.held = {1}]
    /\ UNCHANGED <<pc, ret, iterators>>

Iter_View ==
    /\ 1 \in args.held
    /\ \A id \in MatrixIds : matrices[id].view_of = 0
    /\ Matrix_GetTransposed(1)
    /\ args' = [args EXCEPT !.held = @ \cup {Len(matrices) + 1}]
    /\ UNCHANGED <<pc, ret, iterators>>

Iter_GetIter ==
    /\ Len(iterators) < MaxIterators
    /\ \E self \in OnBuffer : Matrix_GetIter(self)
    /\ args' = [args EXCEPT !.its = @ \cup {Len(iterators) + 1}]
    /\ UNCHANGED <<pc, ret>>

Iter_Next ==
    /\ \E it \in args.its :
           /\ MatrixIterator_Next(it)
           /\ args' = IF result'.err # ""
                      THEN args
                      ELSE [args EXCEPT
                               !.items = Append(@, [it |-> it, kind |-> result'.kind,
                                                    val |-> result'.val]),
                               !.held = IF result'.kind = "matrix"
                                        THEN @ \cup {result'.val[1]} ELSE @]
    /\ UNCHANGED <<pc, ret>>

Iter_SetItem ==
    /\ args.sets < MaxSets
    /\ \E self \in OnBuffer, key \in {PyTuple(<<FullSlice, FullSlice>>), PyLong(0)} :
           Matrix_SetItem(self, key, Fresh(args.sets + 1))
    /\ args' = [args EXCEPT !.sets = @ + 1]
    /\ UNCHANGED <<pc, ret, iterators>>

Iter_DropMatrix ==
    /\ \E self \in OnBuffer :
           /\ Matrix_DECREF(self)
           /\ result' = Outcome("Drop", self, "", "", <<>>)
           /\ args' = [args EXCEPT !.held = @ \ {self}]
    /\ UNCHANGED <<pc, ret, iterators>>

Iter_DropIterator ==
    /\ \E it \in args.its :
           /\ MatrixIterator_Dealloc(it)
           /\ result' = Outcome("Drop", 0, "", "", <<>>)
           /\ args' = [args EXCEPT !.its = @ \ {it}]
    /\ UNCHANGED <<pc, ret>>

IterNext ==
    \/ Iter_Construct
    \/ Iter_View
    \/ Iter_GetIter
    \/ Iter_Next
    \/ Iter_SetItem
    \/ Iter_DropMatrix
    \/ Iter_DropIterator

SpecIter == IterInit /\ [][IterNext]_vars

(***************************************************************************)
(* C24: a MatrixContainer is destroyed exactly when its last holder is     *)
(* dropped.  Its reference count always equals the number of live Matrix   *)
(* instances that hold it, where a Matrix is live while the caller holds   *)
(* it or an iterator the caller holds refers to it; so it is never         *)
(* destroyed while some Matrix, even one kept alive only by an iterator,   *)
(* still holds it, and it is destroyed once none does.                     *)
(***************************************************************************)
Live(id) ==
    \/ id \in args.held
    \/ \E it \in args.its : iterators[it].matrix = id

Holders(c) == {id \in MatrixIds : matrices[id].container = c /\ Live(id)}

Destroyed(c) == containers[c].refcnt = 0

C24_Lifetime ==
    /\ \A id \in MatrixIds : matrices[id].ob_refcnt > 0 <=> Live(id)
    /\ \A c \in 1 .. Len(containers) :
           /\ containers[c].refcnt = Cardinality(Holders(c))
           /\ Destroyed(c) <=> Holders(c) = {}

\* A and A.t have been dropped; an iterator over A.t keeps the buffer alive.
C24_Witness ==
    /\ Len(matrices) >= 2
    /\ matrices[2].view_of = 1
    /\ 1 \notin args.held
    /\ 2 \notin args.held
    /\ matrices[1].ob_refcnt = 0
    /\ \E it \in args.its : iterators[it].matrix = 2
    /\ Holders(1) = {2}
    /\ containers[1].refcnt = 1
    /\ ~Destroyed(1)

(***************************************************************************)
(* C25: iterating a Matrix of logical shape (R, C) yields, in order,       *)
(* Get((k, FullRange)) for k = 0 .. R - 1 when R > 1 and                   *)
(* Get((FullRange, k)) for k = 0 .. C - 1 when R = 1.  After exactly that  *)
(* many items Next returns end-of-sequence, and so does every later Next:  *)
(* the cursor never decreases and always satisfies 0 <= idx <= idx_max.    *)
(***************************************************************************)
IteratedMatrix(it) == matrices[iterators[it].matrix]

\* The number of items the caller has received from iterator it.
RECURSIVE CountItems(_, _)
CountItems(items, it) ==
    IF items = <<>> THEN 0
    ELSE CountItems(Tail(items), it) + (IF Head(items).it = it THEN 1 ELSE 0)

ItemCount(it) ==
    IF LogicalRows(IteratedMatrix(it)) > 1
    THEN LogicalRows(IteratedMatrix(it))
    ELSE LogicalCols(IteratedMatrix(it))

\* The key of the k-th item: row k, or column k of a Matrix of one row.
ItemKey(it, k) ==
    IF LogicalRows(IteratedMatrix(it)) > 1
    THEN PyTuple(<<PyLong(k), FullSlice>>)
    ELSE PyTuple(<<FullSlice, PyLong(k)>>)

\* This step is a Next on it that yields an item.
Yields(it) ==
    /\ Len(args'.items) = Len(args.items) + 1
    /\ args'.items[Len(args'.items)].it = it

\* This step is a Next on it that returns end-of-sequence.
Stops(it) ==
    /\ result'.op = "Next"
    /\ result'.self = it
    /\ result'.err = "StopIteration"

\* The item of this step is what Get(key) returns on the buffer as it is.
YieldsGet(m, key) ==
    IF Len(Selected(m, key)) = 1
    THEN /\ result'.kind = "float"
         /\ result'.val = Selected(m, key)
    ELSE /\ result'.kind = "matrix"
         /\ ~matrices'[result'.val[1]].transposed
         /\ matrices'[result'.val[1]].N = Len(KeyRows(m, key))
         /\ matrices'[result'.val[1]].M = Len(KeyCols(m, key))
         /\ containers'[matrices'[result'.val[1]].container].data = Selected(m, key)

C25_Iteration ==
    [][\A it \in args.its :
           /\ 0 <= iterators[it].idx
           /\ iterators[it].idx <= iterators[it].idx_max
           /\ iterators'[it].idx >= iterators[it].idx
           /\ Yields(it) =>
                  /\ CountItems(args.items, it) < ItemCount(it)
                  /\ result'.err = ""
                  /\ YieldsGet(IteratedMatrix(it),
                               ItemKey(it, CountItems(args.items, it)))
           /\ Stops(it) =>
                  /\ CountItems(args.items, it) = ItemCount(it)
                  /\ args'.items = args.items
                  /\ iterators' = iterators]_vars

\* Both columns of a transposed 2 x 1 Matrix, one logical row, then the end.
C25_Witness ==
    /\ result.op = "Next"
    /\ result.err = "StopIteration"
    /\ Len(iterators) = 1
    /\ iterators[1].iter_columns
    /\ iterators[1].idx = 2
    /\ Matrix_TRANSPOSED(matrices[1])
    /\ Matrix_N(matrices[1]) = 2
    /\ Matrix_M(matrices[1]) = 1
    /\ args.sets = 0
    /\ args.items = <<[it |-> 1, kind |-> "float", val |-> <<-1>>],
                      [it |-> 1, kind |-> "float", val |-> <<0>>]>>

(***************************************************************************)
(* C30: iteration is not a snapshot.  With Set operations on the Matrix or *)
(* on a view of its buffer between the Next calls, each item yielded       *)
(* equals Get on the buffer contents at the moment of that Next, and the   *)
(* items already yielded are independent copies that a later Set never     *)
(* changes.                                                                *)
(***************************************************************************)
\* This step is a Set through A or A.t.
Writes == args'.sets = args.sets + 1

\* The data of a yielded item: the float, or the buffer of the Matrix.
ItemData(item, ms, cs) ==
    IF item.kind = "matrix" THEN cs[ms[item.val[1]].container].data ELSE item.val

C30_NotSnapshot ==
    [][/\ \A it \in args.its :
              (Yields(it) /\ result'.err = "") =>
                  ItemData(args'.items[Len(args'.items)], matrices', containers')
                      = Selected(IteratedMatrix(it), ItemKey(it, iterators[it].idx))
       /\ Writes =>
              /\ args'.items = args.items
              /\ \A k \in 1 .. Len(args.items) :
                     ItemData(args.items[k], matrices', containers')
                         = ItemData(args.items[k], matrices, containers)]_vars

\* Row 0 of a 2 x 2 A, then A.t[:, :] = 5, then row 1 of A.
C30_Witness ==
    /\ Len(matrices) = 4
    /\ matrices[2].view_of = 1
    /\ ~Matrix_TRANSPOSED(matrices[1])
    /\ Len(iterators) = 1
    /\ iterators[1].matrix = 1
    /\ Len(args.items) = 2
    /\ args.sets = 1
    /\ ItemData(args.items[1], matrices, containers) = <<-1, 0>>
    /\ ItemData(args.items[2], matrices, containers) = <<Fresh(1).val, Fresh(1).val>>
    /\ Matrix_DATA(matrices[1]) = <<Fresh(1).val, Fresh(1).val, Fresh(1).val, Fresh(1).val>>

(***************************************************************************)
(* C26: Matrix op scalar and scalar op Matrix, for +, - and *, return a    *)
(* Matrix with the physical shape and the flag of the operand Matrix whose *)
(* logical element (i, j) is m(i, j) op s, respectively s op m(i, j), at   *)
(* every logical position.                                                 *)
(***************************************************************************)
\* m op s or s op m has been evaluated for a Matrix m and a number s.
Broadcast ==
    /\ pc = "follow"
    /\ result.op \in {"add", "sub", "mul"}
    /\ \/ Matrix_Check(args.first) /\ IsNumber(args.second)
       \/ IsNumber(args.first) /\ Matrix_Check(args.second)

MatrixOperand == IF Matrix_Check(args.first) THEN First ELSE Second

C26_Broadcast ==
    Broadcast =>
        /\ result.err = ""
        /\ result.kind = "matrix"
        /\ Matrix_N(Returned) = Matrix_N(MatrixOperand)
        /\ Matrix_M(Returned) = Matrix_M(MatrixOperand)
        /\ Matrix_TRANSPOSED(Returned) = Matrix_TRANSPOSED(MatrixOperand)
        /\ \A i \in 0 .. LogicalRows(MatrixOperand) - 1,
              j \in 0 .. LogicalCols(MatrixOperand) - 1 :
               Element(Returned, i, j)
                   = IF Matrix_Check(args.first)
                     THEN FloatOp(result.op, Element(First, i, j), args.second.val)
                     ELSE FloatOp(result.op, args.first.val, Element(Second, i, j))

\* 2 - A for a transposed 2 x 2 A of -1, 0, 1, 2.
C26_Witness ==
    /\ Broadcast
    /\ result.op = "sub"
    /\ args.first = PyLong(2)
    /\ args.second = PyMatrix(1)
    /\ Matrix_TRANSPOSED(Second)
    /\ Matrix_DATA(Second) = <<-1, 0, 1, 2>>
    /\ Matrix_TRANSPOSED(Returned)
    /\ Matrix_DATA(Returned) = <<3, 2, 1, 0>>

(***************************************************************************)
(* is_close and Matrix_AllClose.  The tolerances and the operands of this  *)
(* specification are small integers, so that every product and difference *)
(* below is exact; INFINITY stands for the double HUGE_VAL, beyond every   *)
(* finite value in use.                                                    *)
(***************************************************************************)
INFINITY == 1000

isinf(x) == fabs(x) = INFINITY

\* The absolute tolerance compared with <= as the relative one is.
is_close_inclusive(a, b, rel_tol, abs_tol) ==
    IF a = b THEN TRUE
    ELSE IF isinf(a) \/ isinf(b) THEN FALSE
    ELSE \/ fabs(b - a) <= rel_tol * fabs(b)
         \/ fabs(b - a) <= rel_tol * fabs(a)
         \/ fabs(b - a) <= abs_tol

is_close(a, b, rel_tol, abs_tol) ==
    IF a = b THEN TRUE
    ELSE IF isinf(a) \/ isinf(b) THEN FALSE
    ELSE \/ fabs(b - a) <= rel_tol * fabs(b)
         \/ fabs(b - a) <= rel_tol * fabs(a)
         \/ fabs(b - a) < abs_tol

\* comp starts at 1 and drops to 0 at the first pair that is not close.
RECURSIVE AllCloseLoop(_, _, _, _, _, _, _)
AllCloseLoop(fdata, sdata, flinidx, slinidx, rel_tol, abs_tol, i) ==
    IF i >= Len(flinidx)
    THEN TRUE
    ELSE IF ~is_close(fdata[flinidx[i + 1] + 1], sdata[slinidx[i + 1] + 1], rel_tol, abs_tol)
    THEN FALSE
    ELSE AllCloseLoop(fdata, sdata, flinidx, slinidx, rel_tol, abs_tol, i + 1)

AllCloseSelected(fm, sm, flinidx, slinidx, rel_tol, abs_tol) ==
    IF flinidx.err # "" THEN OpRaise(flinidx.err)
    ELSE IF slinidx.err # "" THEN OpRaise(slinidx.err)
    ELSE OpBool(AllCloseLoop(Matrix_DATA(fm), Matrix_DATA(sm),
                             flinidx.val, slinidx.val, rel_tol, abs_tol, 0))

\* A number is compared with the raw data of self.
AllCloseScalar(data, other_value, rel_tol, abs_tol) ==
    OpBool(\A i \in 1 .. Len(data) : is_close(data[i], other_value, rel_tol, abs_tol))

AllCloseOutcome(self, other, rel_tol, abs_tol) ==
    IF rel_tol < 0 \/ abs_tol < 0
    THEN OpRaise("ValueError")
    ELSE IF Matrix_Check(other)
    THEN IF /\ Matrix_SHAPE_I(self) = Matrix_SHAPE_I(matrices[other.val])
            /\ Matrix_SHAPE_J(self) = Matrix_SHAPE_J(matrices[other.val])
         THEN AllCloseSelected(self, matrices[other.val],
                               select_all(self.N, self.M, self.transposed),
                               select_all(matrices[other.val].N, matrices[other.val].M,
                                          matrices[other.val].transposed),
                               rel_tol, abs_tol)
         ELSE OpRaise("ValueError")
    ELSE IF PyLong_Check(other) \/ PyFloat_Check(other)
    THEN AllCloseScalar(Matrix_DATA(self), other.val, rel_tol, abs_tol)
    ELSE OpNotImplemented

Matrix_AllClose(self, other, rel_tol, abs_tol) ==
    Matrix_Return("all_close", self, AllCloseOutcome(matrices[self], other, rel_tol, abs_tol))

(***************************************************************************)
(* A caller that constructs A and B, may take the view x.t of one of them, *)
(* and calls all_close on one of its matrices; args.key and args.value     *)
(* keep the rel_tol and the abs_tol it passed.                             *)
(***************************************************************************)
RelTols == -1 .. 1
AbsTols == -1 .. 3
CloseOperands == Operands \cup {PyFloat(INFINITY)}

Close_AllClose ==
    /\ pc = "operate"
    /\ \E self \in MatrixIds, other \in CloseOperands, rel_tol \in RelTols, abs_tol \in AbsTols :
           /\ Matrix_AllClose(self, other, rel_tol, abs_tol)
           /\ args' = [first |-> PyMatrix(self), second |-> other,
                       key |-> PyLong(rel_tol), value |-> PyLong(abs_tol)]
    /\ pc' = "end"
    /\ UNCHANGED <<ret, iterators>>

CloseNext ==
    \/ Ops_Construct
    \/ Ops_View
    \/ Close_AllClose

SpecClose == OpsInit /\ [][CloseNext]_vars

(***************************************************************************)
(* C27: all_close(other, rel_tol, abs_tol) returns true iff every          *)
(* logically paired element pair (a, b) satisfies a == b, or neither is    *)
(* infinite and |a-b| <= rel_tol*max(|a|,|b|) or |a-b| <= abs_tol; a       *)
(* negative rel_tol or abs_tol fails with ValueError.  As stated, with the *)
(* boundary |a-b| == abs_tol counting as close, the claim fails; it holds  *)
(* with the absolute tolerance compared strictly, |a-b| < abs_tol.         *)
(***************************************************************************)
AllClosed ==
    /\ pc = "end"
    /\ result.op = "all_close"

\* The pair (a, b) is close under the stated rule (boundary included) or
\* under the rule with the strict absolute comparison.
Close(a, b, rel_tol, abs_tol, boundary) ==
    \/ a = b
    \/ /\ ~isinf(a)
       /\ ~isinf(b)
       /\ \/ fabs(a - b) <= rel_tol * Max(fabs(a), fabs(b))
          \/ fabs(a - b) < abs_tol
          \/ boundary /\ fabs(a - b) = abs_tol

\* The element of other paired with the logical element (i, j) of self.
Paired(i, j) ==
    IF Matrix_Check(args.second) THEN Element(Second, i, j) ELSE args.second.val

Comparable ==
    \/ IsNumber(args.second)
    \/ Matrix_Check(args.second) /\ EqualShapes(First, Second)

AllPairsClose(boundary) ==
    \A i \in 0 .. LogicalRows(First) - 1, j \in 0 .. LogicalCols(First) - 1 :
        Close(Element(First, i, j), Paired(i, j), args.key.val, args.value.val, boundary)

AllCloseAs(boundary) ==
    AllClosed =>
        IF args.key.val < 0 \/ args.value.val < 0
        THEN result.err = "ValueError"
        ELSE Comparable =>
                 /\ result.err = ""
                 /\ result.kind = "bool"
                 /\ result.val = <<AllPairsClose(boundary)>>

Linearized ==
    /\ pc = "linearize_indices"
    /\ ret.err = ""

SubShapeSize(sub_shape) ==
    IF sub_shape.err # "" THEN -1 ELSE sub_shape.val[1] * sub_shape.val[2]

C28_Offsets ==
    Linearized =>
        /\ Len(ret.val) = SubShapeSize(get_sub_shape(args.N, args.M, args.transposed,
                                                     args.indices))
        /\ InBuffer(ret.val)

\* A List and a Range on a transposed 2 x 3 buffer: ((2, 0), slice(None, None, 1))
\* selects 2 x 2 elements.
C28_Witness ==
    /\ Linearized
    /\ args.N = 2 /\ args.M = 3 /\ args.transposed
    /\ IsSelectorPair(args.indices)
    /\ PyTuple_Check(Sel_i)
    /\ PySlice_Check(Sel_j)
    /\ Len(ret.val) = 4
    /\ get_sub_shape(args.N, args.M, args.transposed, args.indices) = Ok(<<2, 2>>)

(***************************************************************************)
(* C29: Set with a Matrix value that shares the destination's buffer       *)
(* stores the value's logical elements as they were before the call: the   *)
(* selected positions of m hold, after m.Set(key, v), the logical elements *)
(* v had before it, so that m.Set((FullRange, FullRange), m.t) on a square *)
(* m leaves m.Get((i, j)) equal to the earlier m.Get((j, i)).             *)
(***************************************************************************)
\* A[key] = v has succeeded for a v on the buffer of A and a key that
\* selects no element twice.
SetAliased ==
    /\ pc = "follow"
    /\ result.op = "SetItem"
    /\ result.err = ""
    /\ Matrix_Check(args.value)
    /\ matrices[args.value.val].container = matrices[1].container
    /\ SelectsOnce(matrices[1], args.key)

C29_Claim ==
    [][SetAliased' =>
           Selected(matrices[1], args.key)' = LogicalElements(matrices[args'.value.val])]_vars

\* A[:, :] = A.t for a 2 x 2 A of -1, 0, 1, 2: the buffer ends as -1, 1, 1, 2,
\* the element (1, 0) being read after (0, 1) was overwritten.
C29_Witness ==
    /\ SetAliased
    /\ args.key = PyTuple(<<FullSlice, FullSlice>>)
    /\ args.value = PyMatrix(3)
    /\ matrices[3].view_of = 1
    /\ Matrix_N(matrices[1]) = 2
    /\ Matrix_M(matrices[1]) = 2
    /\ ~Matrix_TRANSPOSED(matrices[1])
    /\ Matrix_DATA(matrices[1]) = <<-1, 1, 1, 2>>

====
